---------------------------- MODULE Spec2Model ----------------------------
(***************************************************************************)
(* Verification model of the template generator:                           *)
(*   - the two generation orchestrators (lib/ai/inference.ts and           *)
(*     lib/ai/tools.ts),                                                   *)
(*   - the MCP tool registry and batch dispatch (lib/mcp/tools.ts over     *)
(*     lib/mcp/client.ts),                                                 *)
(*   - the file-backed template store (lib/storage).                       *)
(*                                                                         *)
(* Strings.  A JavaScript string is represented by the result of           *)
(* split(' ') on it: a non-empty sequence of space-free tokens, each token *)
(* given by its length in characters.  split(' ') / join(' ') are exact    *)
(* inverses on this representation; the empty string is <<0>>.             *)
(***************************************************************************)
EXTENDS Integers, Sequences, FiniteSets, TLC

VARIABLES
    \* ---- generation orchestrators ----
    orch,         \* which orchestrator this run exercises: "inference" | "tools"
    request,      \* the validated GenerationRequest
    g_pc,         \* position of generateTemplate
    iteration,    \* loop variable of the tool-calling loop (inference.ts:44)
    invocations,  \* number of sequence.evaluate() calls made (model invocations)
    template,     \* the template assembled so far / returned
    toolCalls,    \* the toolCalls local / returned
    g_error,      \* the error field of the result ("" when absent)
    ctxOpen,      \* inference contexts created and not yet disposed
    ctxMade,      \* inference contexts created
    lastResp,     \* the response text handed to parseAIResponse (history)
    \* ---- MCP client and tool registry ----
    servers,      \* mcpClient.servers: server id -> "absent" | "active" | "inactive"
    tools,        \* toolRegistry.tools: tool name -> ToolDefinition (or NoTool)
    serverTools,  \* toolRegistry.serverTools: sequence of [id, names], insertion order
    lastExec,     \* the last direct executeToolCall: its call and how it settled
    b_pc,         \* executeBatchToolCalls: "idle" | "flight" | "done"
    b_calls,      \* the toolCalls argument of the batch
    b_settle,     \* per call: how its promise settles (fixed when the call starts)
    b_order,      \* indices of the calls whose promise has settled, in settle order
    b_results,    \* the array the batch returns
    \* ---- file-backed template store ----
    store,        \* the array in templates.json
    clock,        \* the time the next new Date() cannot go below
    lastOp,       \* the last storage call: what it was given and what it returned
    lastImport,   \* the last importTemplates call: how many items, and what it returned
    localStore,   \* the array under the localStorage key 'templates' (browser variant)
    \* ---- single calls exercised on drawn inputs ----
    rt,           \* save-then-load: the template given, the position, what was loaded
    vd,           \* the last validation call: schema, payload, result
    http,         \* the response POST /generate sent, if any
    cs,           \* two concurrent saveTemplate calls: position, argument, array read
    ld            \* the model loader (llama.ts) and its last call

genVars == <<orch, request, g_pc, iteration, invocations, template, toolCalls,
             g_error, ctxOpen, ctxMade, lastResp>>

toolVars == <<servers, tools, serverTools, lastExec, b_pc, b_calls, b_settle, b_order,
              b_results>>

storeVars == <<store, clock, lastOp, lastImport, localStore>>

callVars == <<rt, vd, http, cs, ld>>

vars == <<genVars, toolVars, storeVars, callVars>>

\* what the actions of one subsystem leave alone
notGen == <<toolVars, storeVars, callVars>>
notTools == <<genVars, storeVars, callVars>>
notStore == <<genVars, toolVars, callVars>>

----------------------------------------------------------------------------
(* Bounds of the model *)

MaxWords == 7
MaxBlocks == 2
MaxCalls == 2
MaxSections == 2
MaxParams == 2
MaxBatch == 2
MaxTime == 1
MaxStore == 2
MaxImport == 2
MaxList == 3
MaxHex == 7
MaxLoads == 3

(* Program constants *)

MAX_TOOL_ITERATIONS == 3
TITLE_CHARS == 50
DESC_MIN == 10
DESC_MAX == 500
TITLE_WORDS == 6
FALLBACK_TITLE_WORDS == 3
MAX_SECTIONS == 10
SHORT_LINE == 100
LONG_DESC_MAX == 2000
MIN_MODEL_BYTES == 104857600
STORE_TITLE_WORDS == 6

Min(a, b) == IF a < b THEN a ELSE b

----------------------------------------------------------------------------
(* Strings as token sequences *)

WordLen == 3

RECURSIVE SumSeq(_)
SumSeq(s) == IF s = <<>> THEN 0 ELSE Head(s) + SumSeq(Tail(s))

\* s.length
Chars(s) == IF s = <<>> THEN 0 ELSE SumSeq(s) + Len(s) - 1

EmptyString == <<0>>

\* s.split(' ').slice(0, n).join(' ')
FirstWords(s, n) == SubSeq(s, 1, Min(n, Len(s)))

\* s.substring(0, n)
RECURSIVE Substring(_, _)
Substring(s, n) ==
    IF n >= Chars(s) THEN s
    ELSE IF n <= Head(s) THEN <<n>>
    ELSE IF n = Head(s) + 1 THEN <<Head(s), 0>>
    ELSE <<Head(s)>> \o Substring(Tail(s), n - Head(s) - 1)

\* A string value: either a literal of the source or a text built from tokens.
Lit(s) == [lit |-> s, toks |-> <<>>]
Txt(toks) == [lit |-> "", toks |-> toks]

\* JavaScript truthiness of a string: non-empty
Truthy(str) == str.lit # "" \/ Chars(str.toks) > 0

SeqsUpTo(S, n) == UNION {[1..k -> S] : k \in 0..n}

\* descriptions of n tokens, the first k of them empty (k leading spaces), the
\* others words of WordLen characters
Descriptions ==
    {[i \in 1..n |-> IF i <= k THEN 0 ELSE WordLen] : n \in 1..MaxWords, k \in 0..1}

----------------------------------------------------------------------------
(* Requests *)

Themes == {"light", "dark"}
ModelPaths == {"", "model.gguf"}

\* GenerationRequestSchema: description.min(10).max(500)
ValidDescription(d) == Chars(d) >= DESC_MIN /\ Chars(d) <= DESC_MAX

Requests ==
    {r \in [description : Descriptions, theme : Themes, useMCP : BOOLEAN,
            modelPath : ModelPaths] : ValidDescription(r.description)}

----------------------------------------------------------------------------
(* Blocks and templates *)

Block(type, level, content) == [type |-> type, level |-> level, content |-> content]
Heading(level, content) == Block("heading", level, content)
Paragraph(content) == Block("paragraph", 0, content)
Divider == Block("divider", 0, Txt(EmptyString))

\* Blocks that come verbatim out of the model's JSON
ModelBlock == Block("model", 0, Lit("model"))
ModelBlocks(n) == [i \in 1..n |-> ModelBlock]

NullTemplate ==
    [null |-> TRUE, title |-> Lit(""), description |-> Lit(""), blocks |-> <<>>]

MkTemplate(title, description, blocks) ==
    [null |-> FALSE, title |-> title, description |-> description, blocks |-> blocks]

----------------------------------------------------------------------------
(* Model responses.                                                        *)
(* A response text is described by what the orchestrators' regular         *)
(* expressions and JSON.parse make of it:                                  *)
(*   kind "empty"  the empty string                                        *)
(*   kind "prose"  text that holds no parsable JSON; braces tells whether  *)
(*                 it holds a '{' ... '}' span (which then fails to parse) *)
(*   kind "json"   text whose JSON candidate (the fenced part, the brace   *)
(*                 span, or the whole text) parses to val                  *)
(* sections is the text split on blank lines, blank sections dropped; a    *)
(* section is its number of non-blank lines and whether its first line is  *)
(* shorter than SHORT_LINE characters.                                     *)
(***************************************************************************)

Sections == [lines : 1..2, firstShort : BOOLEAN]
SectionSeqs == SeqsUpTo(Sections, MaxSections)

NoJsonTemplate == [present |-> FALSE, hasTitle |-> FALSE, hasBlocks |-> FALSE, blocks |-> <<>>]
JsonTemplates ==
    {NoJsonTemplate}
    \cup {[present |-> TRUE, hasTitle |-> t, hasBlocks |-> FALSE, blocks |-> <<>>] : t \in BOOLEAN}
    \cup {[present |-> TRUE, hasTitle |-> t, hasBlocks |-> TRUE, blocks |-> ModelBlocks(n)] :
            t \in BOOLEAN, n \in 0..MaxBlocks}

\* a tool_calls entry is a well-formed call or null
CallEntries == {"call", "null"}
NoToolCalls == [isArray |-> FALSE, calls |-> <<>>]
JsonToolCalls ==
    {NoToolCalls} \cup {[isArray |-> TRUE, calls |-> c] : c \in SeqsUpTo(CallEntries, MaxCalls)}

JsonObject(t, c) == [t |-> "object", template |-> t, tool_calls |-> c]
JsonNull == [t |-> "null", template |-> NoJsonTemplate, tool_calls |-> NoToolCalls]
JsonScalar == [t |-> "scalar", template |-> NoJsonTemplate, tool_calls |-> NoToolCalls]
JsonValues == {JsonNull, JsonScalar} \cup {JsonObject(t, c) : t \in JsonTemplates, c \in JsonToolCalls}

EmptyResponse == [kind |-> "empty", braces |-> FALSE, sections |-> <<>>, val |-> JsonNull]
ProseResponses ==
    {[kind |-> "prose", braces |-> b, sections |-> s, val |-> JsonNull] :
        b \in BOOLEAN, s \in SectionSeqs}
JsonResponses ==
    {[kind |-> "json", braces |-> v.t = "object", sections |-> <<[lines |-> 1, firstShort |-> TRUE]>>,
      val |-> v] : v \in JsonValues}
Responses == {EmptyResponse} \cup ProseResponses \cup JsonResponses

\* the malformed responses: empty string, plain prose, unparsable JSON
Malformed(resp) == resp.kind \in {"empty", "prose"}

----------------------------------------------------------------------------
(* lib/ai/inference.ts: generateTemplate *)

\* the mock response substituted for an empty model response (inference.ts:77-95)
MockResponseBlocks(req) ==
    << Heading(1, Txt(req.description)),
       Paragraph([lit |-> "This is a <theme> themed template for: ", toks |-> req.description]) >>

MockJson(req) ==
    JsonObject([present |-> TRUE, hasTitle |-> FALSE, hasBlocks |-> TRUE,
                blocks |-> MockResponseBlocks(req)], NoToolCalls)

\* fullResponse after the empty-response substitution, as a JSON candidate:
\* [match |-> the regex /\{[\s\S]*\}/ matched, ok |-> JSON.parse succeeded, val]
InferenceJson(req, resp) ==
    IF resp.kind = "empty" THEN [match |-> TRUE, ok |-> TRUE, val |-> MockJson(req)]
    ELSE IF resp.kind = "prose" THEN [match |-> resp.braces, ok |-> FALSE, val |-> JsonNull]
    ELSE [match |-> resp.braces, ok |-> resp.braces, val |-> resp.val]

\* inference.ts:107-114
InferenceTemplate(req, jt) ==
    MkTemplate(Txt(Substring(req.description, TITLE_CHARS)), Txt(req.description),
               IF jt.hasBlocks THEN jt.blocks ELSE <<>>)

\* inference.ts:157-171
LoopFallbackTemplate(req) ==
    MkTemplate(Txt(Substring(req.description, TITLE_CHARS)), Txt(req.description),
               << Heading(1, Txt(req.description)) >>)

\* inference.ts:187-206
ErrorFallbackTemplate(req) ==
    MkTemplate(Txt(Substring(req.description, TITLE_CHARS)), Txt(req.description),
               << Heading(1, Txt(req.description)),
                  Paragraph(Lit("Template generation encountered an error. This is a fallback template.")) >>)

\* the for-loop condition at inference.ts:44
LoopCondition_OffByOne(it) == it <= MAX_TOOL_ITERATIONS
LoopCondition(it) == it < MAX_TOOL_ITERATIONS

\* call.tool_name on a null entry throws a TypeError (inference.ts:125-126)
ToolLoopThrows(calls) == \E i \in 1..Len(calls) : calls[i] = "null"

\* One pass through the body of the try block at inference.ts:102-147, after
\* JSON.parse succeeded on v.  ctl is how the pass leaves the block:
\* "continue", "break", or "fall" (falls through, also after a caught throw).
ParsedPass(req, it, tmpl, calls, v) ==
    LET t1 == IF v.template.present THEN InferenceTemplate(req, v.template) ELSE tmpl
        c1 == IF v.tool_calls.isArray THEN v.tool_calls.calls ELSE calls
        exec == v.tool_calls.isArray /\ req.useMCP /\ Len(c1) > 0
    IN  IF exec /\ ToolLoopThrows(c1)
          THEN [template |-> t1, toolCalls |-> c1, ctl |-> "fall"]
        ELSE IF exec /\ it < MAX_TOOL_ITERATIONS - 1
          THEN [template |-> t1, toolCalls |-> c1, ctl |-> "continue"]
        ELSE IF ~t1.null \/ ~req.useMCP \/ Len(c1) = 0
          THEN [template |-> t1, toolCalls |-> c1, ctl |-> "break"]
        ELSE [template |-> t1, toolCalls |-> c1, ctl |-> "fall"]

\* One iteration of the loop body (inference.ts:45-173) on response resp
IterationPass(req, it, tmpl, calls, resp) ==
    LET j == InferenceJson(req, resp)
        p == IF j.match /\ j.ok THEN ParsedPass(req, it, tmpl, calls, j.val)
             ELSE [template |-> tmpl, toolCalls |-> calls, ctl |-> "fall"]
    IN  IF p.ctl = "fall" /\ it = MAX_TOOL_ITERATIONS - 1 /\ p.template.null
          THEN [p EXCEPT !.template = LoopFallbackTemplate(req)]
          ELSE p

\* the catch block (inference.ts:183-213): fallback template, no tool calls, error
ReturnError(msg) ==
    /\ g_pc' = "done"
    /\ template' = ErrorFallbackTemplate(request)
    /\ toolCalls' = <<>>
    /\ g_error' = msg

\* the JSON bodies POST /generate sends (route.ts:20-64): error is a string
\* where present, details accompanies the validation error
ErrorBody(error, details) ==
    [success |-> "absent", error |-> [type |-> "string", message |-> error],
     details |-> details, template |-> NullTemplate, toolCalls |-> <<>>]
SuccessBody(tmpl, calls) ==
    [success |-> "true", error |-> [type |-> "absent", message |-> ""],
     details |-> FALSE, template |-> tmpl, toolCalls |-> calls]
Http(status, body) == [sent |-> TRUE, status |-> status, body |-> body]
NoHttp == [sent |-> FALSE, status |-> 0, body |-> ErrorBody("", FALSE)]

GenInit ==
    /\ orch \in {"inference", "tools"}
    /\ request \in Requests
    /\ orch = "tools" => request.modelPath = "model.gguf"
    /\ g_pc = "start"
    /\ iteration = 0
    /\ invocations = 0
    /\ template = NullTemplate
    /\ toolCalls = <<>>
    /\ g_error = ""
    /\ ctxOpen = 0
    /\ ctxMade = 0
    /\ lastResp = EmptyResponse

\* no generation running
GenIdle ==
    /\ orch = "none"
    /\ request = [description |-> EmptyString, theme |-> "light", useMCP |-> FALSE,
                  modelPath |-> ""]
    /\ g_pc = "idle"
    /\ iteration = 0
    /\ invocations = 0
    /\ template = NullTemplate
    /\ toolCalls = <<>>
    /\ g_error = ""
    /\ ctxOpen = 0
    /\ ctxMade = 0
    /\ lastResp = EmptyResponse

\* inference.ts:23-27: the model path check and loadModel
LoadModel ==
    /\ UNCHANGED notGen
    /\ orch = "inference" /\ g_pc = "start"
    /\ \/ /\ request.modelPath = ""
          /\ ReturnError("Model path is required")
       \/ /\ request.modelPath # ""
          /\ ReturnError("loadModel failed")
       \/ /\ request.modelPath # ""
          /\ g_pc' = "loaded"
          /\ UNCHANGED <<template, toolCalls, g_error>>
    /\ UNCHANGED <<orch, request, iteration, invocations, ctxOpen, ctxMade, lastResp>>

\* inference.ts:28: model.createContext()
CreateContext ==
    /\ UNCHANGED notGen
    /\ orch = "inference" /\ g_pc = "loaded"
    /\ \/ /\ ReturnError("createContext failed")
          /\ UNCHANGED <<ctxOpen, ctxMade>>
       \/ /\ g_pc' = "loop"
          /\ ctxOpen' = ctxOpen + 1
          /\ ctxMade' = ctxMade + 1
          /\ UNCHANGED <<template, toolCalls, g_error>>
    /\ UNCHANGED <<orch, request, iteration, invocations, lastResp>>

\* inference.ts:44-182: one iteration, the model invoked through
\* sequence.evaluate(); when the loop ends, context.dispose() and return
Iterate(resp) ==
    /\ UNCHANGED notGen
    /\ orch = "inference" /\ g_pc = "loop"
    /\ LoopCondition(iteration)
    /\ invocations' = invocations + 1
    /\ LET p == IterationPass(request, iteration, template, toolCalls, resp)
           ends == p.ctl = "break" \/ ~LoopCondition(iteration + 1)
       IN  /\ template' = p.template
           /\ toolCalls' = p.toolCalls
           /\ iteration' = IF p.ctl = "break" THEN iteration ELSE iteration + 1
           /\ g_pc' = IF ends THEN "done" ELSE "loop"
           /\ ctxOpen' = IF ends THEN ctxOpen - 1 ELSE ctxOpen
    /\ UNCHANGED <<orch, request, g_error, ctxMade, lastResp>>

\* inference.ts:55-59: getSequence, tokenize or evaluate throws
EvaluateThrows ==
    /\ UNCHANGED notGen
    /\ orch = "inference" /\ g_pc = "loop"
    /\ LoopCondition(iteration)
    /\ invocations' = invocations + 1
    /\ ReturnError("evaluate failed")
    /\ UNCHANGED <<orch, request, iteration, ctxOpen, ctxMade, lastResp>>

\* route.ts:11-24, 51-65: POST answers before generateTemplate is called:
\* req.json() throws, or no model path was sent
PostRejects ==
    /\ UNCHANGED <<toolVars, storeVars, rt, vd, cs, ld>>
    /\ orch = "inference" /\ g_pc = "start"
    /\ \/ http' = Http(500, ErrorBody("Internal server error", FALSE))
       \/ /\ request.modelPath = ""
          /\ http' = Http(400, ErrorBody("No model selected. Please select a GGUF model first.",
                                         FALSE))
    /\ g_pc' = "rejected"
    /\ UNCHANGED <<orch, request, iteration, invocations, template, toolCalls, g_error,
                   ctxOpen, ctxMade, lastResp>>

\* route.ts:30-50: POST answers with what generateTemplate returned
PostResponds ==
    /\ UNCHANGED <<toolVars, storeVars, rt, vd, cs, ld>>
    /\ orch = "inference" /\ g_pc = "done" /\ request.modelPath # "" /\ ~http.sent
    /\ http' = IF g_error # "" THEN Http(500, ErrorBody(g_error, FALSE))
               ELSE IF template.null THEN Http(500, ErrorBody("Failed to generate template", FALSE))
               ELSE Http(200, SuccessBody(template, toolCalls))
    /\ UNCHANGED <<orch, request, g_pc, iteration, invocations, template, toolCalls, g_error,
                   ctxOpen, ctxMade, lastResp>>

----------------------------------------------------------------------------
(* lib/ai/tools.ts: generateTemplate / parseAIResponse *)

\* the blocks one section contributes (tools.ts:220-249)
SectionBlocks(sec) ==
    << IF sec.firstShort THEN Heading(2, Lit("first line")) ELSE Paragraph(Lit("first line")) >>
    \o (IF sec.lines > 1 THEN << Paragraph(Lit("remaining lines")) >> ELSE <<>>)

RECURSIVE SectionsBlocks(_)
SectionsBlocks(secs) ==
    IF secs = <<>> THEN <<>> ELSE SectionBlocks(Head(secs)) \o SectionsBlocks(Tail(secs))

\* tools.ts:203-258, the value it returns as a parsed JSON object
createStructuredTemplate_SectionsOnly(resp, req) ==
    [title |-> Txt(FirstWords(req.description, TITLE_WORDS)),
     description |-> Txt(req.description),
     blocks |-> SectionsBlocks(SubSeq(resp.sections, 1, Min(MAX_SECTIONS, Len(resp.sections))))]

createStructuredTemplate(resp, req) ==
    [title |-> Txt(FirstWords(req.description, TITLE_WORDS)),
     description |-> Txt(req.description),
     blocks |-> << Heading(1, Txt(FirstWords(req.description, TITLE_WORDS))),
                   Paragraph(Txt(req.description)) >>
                \o SectionsBlocks(SubSeq(resp.sections, 1, Min(MAX_SECTIONS, Len(resp.sections))))]

\* tools.ts:263-304
createDefaultBlocks(req) ==
    << Heading(1, Txt(FirstWords(req.description, TITLE_WORDS))),
       Paragraph(Txt(req.description)),
       Heading(2, Lit("Overview")),
       Paragraph(Lit("This template helps you organize and manage your workflow effectively.")),
       Heading(2, Lit("Getting Started")),
       Paragraph(Lit("Follow these steps to get started with your template:")),
       Divider >>

\* tools.ts:309-332
createFallbackTemplate(req) ==
    MkTemplate([lit |-> "Generated: ", toks |-> FirstWords(req.description, FALLBACK_TITLE_WORDS)],
               Txt(req.description),
               << Heading(1, Txt(req.description)),
                  Paragraph(Lit("A customizable template generated for your workflow.")) >>)

\* tools.ts:159-198
parseAIResponse(resp, req) ==
    IF resp.kind = "json" /\ resp.val.t = "null"
      THEN createFallbackTemplate(req)          \* null.template throws, outer catch
    ELSE IF resp.kind = "json"
      THEN LET jt == resp.val.template
           IN  MkTemplate(IF jt.present /\ jt.hasTitle THEN Lit("model title")
                                                        ELSE Lit("Generated Template"),
                          IF jt.present THEN Lit("model or request description")
                                        ELSE Txt(req.description),
                          IF jt.present /\ jt.hasBlocks THEN jt.blocks
                                                        ELSE createDefaultBlocks(req))
    ELSE LET st == createStructuredTemplate(resp, req)   \* JSON.parse threw
         IN  MkTemplate(IF Truthy(st.title) THEN st.title ELSE Lit("Generated Template"),
                        IF Truthy(st.description) THEN st.description ELSE Txt(req.description),
                        st.blocks)

\* tools.ts:109-141: the inference collaborator returned text resp
GenerateWithTools(resp) ==
    /\ UNCHANGED notGen
    /\ orch = "tools" /\ g_pc = "start"
    /\ lastResp' = resp
    /\ template' = parseAIResponse(resp, request)
    /\ g_pc' = "done"
    /\ UNCHANGED <<orch, request, iteration, invocations, toolCalls, g_error, ctxOpen, ctxMade>>

\* tools.ts:142-153: the inference collaborator threw
GenerationFailed ==
    /\ UNCHANGED notGen
    /\ orch = "tools" /\ g_pc = "start"
    /\ g_error' = "GENERATION_FAILED"
    /\ g_pc' = "done"
    /\ UNCHANGED <<orch, request, iteration, invocations, template, toolCalls, ctxOpen,
                   ctxMade, lastResp>>

GenNext ==
    \/ LoadModel
    \/ CreateContext
    \/ \E resp \in Responses : Iterate(resp)
    \/ EvaluateThrows
    \/ PostRejects
    \/ PostResponds
    \/ \E resp \in Responses : GenerateWithTools(resp)
    \/ GenerationFailed

----------------------------------------------------------------------------
(* Claims about the generation orchestrators *)

\* C1: generateTemplate of inference.ts invokes the model at most
\* MAX_TOOL_ITERATIONS times, whatever the responses and however many tool
\* calls each carries, and has returned once it has invoked it that often.
C1_LoopBounded ==
    orch = "inference" =>
        /\ invocations <= MAX_TOOL_ITERATIONS
        /\ iteration <= MAX_TOOL_ITERATIONS
        /\ (invocations = MAX_TOOL_ITERATIONS => g_pc = "done")

\* C1 witness: a run that used all iterations on responses carrying tool calls
C1_Witness ==
    /\ orch = "inference" /\ g_pc = "done" /\ g_error = ""
    /\ invocations = MAX_TOOL_ITERATIONS
    /\ Len(toolCalls) = MaxCalls

\* C2: whenever an orchestrator returns for a valid request on a
\* model response, the template is non-null, has at least one block and a
\* non-empty title.
C2_TemplateHasBlockAndTitle ==
    (g_pc = "done" /\ g_error = "") =>
        /\ ~template.null
        /\ Len(template.blocks) >= 1
        /\ Truthy(template.title)

\* C3: on a malformed response (empty string, plain prose, unparsable JSON)
\* parseAIResponse returns a template with at least two blocks.
C3_MalformedGivesTwoBlocks ==
    (orch = "tools" /\ g_pc = "done" /\ g_error = "" /\ Malformed(lastResp)) =>
        /\ ~template.null
        /\ Len(template.blocks) >= 2

\* C3 witness: the empty response handled, giving exactly the two leading blocks
C3_Witness ==
    /\ orch = "tools" /\ g_pc = "done" /\ g_error = ""
    /\ lastResp.kind = "empty"
    /\ Len(template.blocks) = 2

\* content is the first k words of the description, for some k of at most six
SixWordPrefix(content, description) ==
    /\ content.lit = ""
    /\ Len(content.toks) <= TITLE_WORDS
    /\ Len(content.toks) <= Len(description)
    /\ content.toks = SubSeq(description, 1, Len(content.toks))

\* C14: for a request with useMCP = FALSE the returned template starts with a
\* heading whose content is a prefix of at most six words of the description,
\* followed by a paragraph whose content is the full description.
C14_HeadingThenDescription ==
    (g_pc = "done" /\ g_error = "" /\ ~request.useMCP) =>
        /\ ~template.null
        /\ Len(template.blocks) >= 2
        /\ template.blocks[1].type = "heading"
        /\ SixWordPrefix(template.blocks[1].content, request.description)
        /\ template.blocks[2].type = "paragraph"
        /\ template.blocks[2].content = Txt(request.description)

\* what a response holds for the loop: a template, a non-empty tool_calls array
HoldsTemplate(req, resp) ==
    LET j == InferenceJson(req, resp)
    IN  j.match /\ j.ok /\ j.val.t = "object" /\ j.val.template.present
HoldsToolCalls(req, resp) ==
    LET j == InferenceJson(req, resp)
    IN  j.match /\ j.ok /\ j.val.t = "object" /\ j.val.tool_calls.isArray
        /\ Len(j.val.tool_calls.calls) > 0

C29_ContextDisposed ==
    (orch = "inference" /\ g_pc = "done") => ctxOpen = 0

----------------------------------------------------------------------------
(* lib/mcp/client.ts: MCPClient *)

NotionMcp == "notion-mcp"
ServerIds == {NotionMcp, "other-mcp"}

\* the tools handleNotionToolCall answers (client.ts:241-318); two of its four
\* cases are kept, the others are handled the same way
NotionTools == {"create_page", "search_pages"}
ToolNames == NotionTools \cup {"custom_tool"}

\* a JSON-schema-like input_schema: declared properties in order, and required
NoSchema == [hasProperties |-> FALSE, properties |-> <<>>, required |-> <<>>]
Prop(key, type) == [key |-> key, type |-> type]

\* client.ts:92-108 and client.ts:133-152
DiscoveredSchema(name) ==
    IF name = "create_page"
      THEN [hasProperties |-> TRUE,
            properties |-> <<Prop("title", "string"), Prop("content", "array"),
                             Prop("parent", "object")>>,
            required |-> <<"title", "parent">>]
    ELSE IF name = "search_pages"
      THEN [hasProperties |-> TRUE,
            properties |-> <<Prop("query", "string"), Prop("filter", "object"),
                             Prop("sort", "object")>>,
            required |-> <<"query">>]
    ELSE NoSchema

NoTool == [present |-> FALSE, server_id |-> "", input_schema |-> NoSchema]
ToolDef(name, sid, schema) == [present |-> TRUE, server_id |-> sid, input_schema |-> schema]

\* client.ts:58-199: discoverTools; ok = FALSE when it throws
discoverTools(srv, sid) ==
    IF srv[sid] # "active" THEN [ok |-> FALSE, tools |-> <<>>]
    ELSE IF sid = NotionMcp THEN [ok |-> TRUE, tools |-> <<"create_page", "search_pages">>]
    ELSE [ok |-> TRUE, tools |-> <<>>]

Response(isError, text) == [is_error |-> isError, text |-> text]
NoResponse == Response(FALSE, "")

\* client.ts:238-329
handleNotionToolCall(call) ==
    IF call.tool_name \in NotionTools
      THEN Response(FALSE, call.tool_name)
      ELSE Response(TRUE, "Unknown tool")

\* client.ts:204-233: every failure is caught and returned as an is_error response
callTool(srv, sid, call) ==
    IF srv[sid] # "active"
      THEN [threw |-> FALSE, response |-> Response(TRUE, "Error: Server not found or inactive")]
    ELSE IF sid = NotionMcp
      THEN [threw |-> FALSE, response |-> handleNotionToolCall(call)]
    ELSE [threw |-> FALSE, response |-> Response(TRUE, "Error: Unknown server")]

----------------------------------------------------------------------------
(* lib/mcp/tools.ts: ToolRegistry *)

\* JavaScript values by kind
ValueKinds == {"string", "number", "NaN", "boolean", "array", "object", "null"}

\* tools.ts:165-182
validateType(kind, expectedType) ==
    CASE expectedType = "string" -> kind = "string"
      [] expectedType = "number" -> kind = "number"
      [] expectedType = "boolean" -> kind = "boolean"
      [] expectedType = "array" -> kind = "array"
      [] expectedType = "object" -> kind = "object"
      [] expectedType = "null" -> kind = "null"
      [] OTHER -> TRUE

\* parameters: the object's entries in insertion order, [key, kind]
HasKey(params, key) == \E i \in 1..Len(params) : params[i].key = key
DeclaredType(schema, key) ==
    LET idx == {i \in 1..Len(schema.properties) : schema.properties[i].key = key}
    IN  IF idx = {} THEN "" ELSE schema.properties[CHOOSE i \in idx : TRUE].type

Missing(key) == [kind |-> "missing", key |-> key]
BadType(key) == [kind |-> "type", key |-> key]

\* required keys absent from the parameters, in the order of schema.required
MissingRequired(schema, params) ==
    SelectSeq([i \in 1..Len(schema.required) |-> Missing(schema.required[i])],
              LAMBDA v : ~HasKey(params, v.key))

\* parameters whose kind does not match the declared type, in insertion order
TypeMismatches(schema, params) ==
    LET ks == [i \in 1..Len(params) |->
                [kind |-> IF DeclaredType(schema, params[i].key) # ""
                             /\ ~validateType(params[i].kind, DeclaredType(schema, params[i].key))
                          THEN "type" ELSE "ok",
                 key |-> params[i].key]]
    IN  SelectSeq(ks, LAMBDA v : v.kind = "type")

\* tools.ts:136-160: the violations the thrown error names (<<>> when it returns)
validateToolParameters(tool, params) ==
    LET schema == tool.input_schema
        missing == MissingRequired(schema, params)
        bad == TypeMismatches(schema, params)
    IN  IF ~schema.hasProperties THEN <<>>
        ELSE IF missing # <<>> THEN <<Head(missing)>>
        ELSE IF bad # <<>> THEN <<Head(bad)>>
        ELSE <<>>

\* tools.ts:187-194: the first server, in insertion order, whose set has the tool
findServerForTool(st, name) ==
    LET idx == {i \in 1..Len(st) : name \in st[i].names}
    IN  IF idx = {} THEN "" ELSE st[CHOOSE i \in idx : \A j \in idx : i <= j].id

Settled(status, error, violations, response, dispatchedTo) ==
    [status |-> status, error |-> error, violations |-> violations,
     response |-> response, dispatchedTo |-> dispatchedTo]
Rejected(error, violations) == Settled("rejected", error, violations, NoResponse, "")
NotSettled == Settled("none", "", <<>>, NoResponse, "")

\* tools.ts:107-131: how the promise of executeToolCall settles
executeToolCall_NoLookup(reg, st, srv, call) ==
    LET sid == findServerForTool(st, call.tool_name)
        sid2 == IF sid = "" THEN NotionMcp ELSE sid
        r == callTool(srv, sid2, call)
    IN  Settled("fulfilled", "", <<>>, r.response, sid2)

executeToolCall(reg, st, srv, call) ==
    LET tool == reg[call.tool_name]
        violations == validateToolParameters(tool, call.parameters)
        sid == findServerForTool(st, call.tool_name)
        r == callTool(srv, sid, call)
    IN  IF ~tool.present THEN Rejected("Tool not found", <<>>)
        ELSE IF violations # <<>> THEN Rejected("Invalid parameters", violations)
        ELSE IF sid = "" THEN Rejected("No server found for tool", <<>>)
        ELSE IF r.threw THEN Settled("rejected", "callTool threw", <<>>, NoResponse, sid)
        ELSE Settled("fulfilled", "", <<>>, r.response, sid)

\* tools.ts:29-45 with registerTool (50-52) and addServerTool (57-62)
RECURSIVE RegisterAll(_, _, _)
RegisterAll(reg, names, sid) ==
    IF names = <<>> THEN reg
    ELSE RegisterAll([reg EXCEPT ![Head(names)] = ToolDef(Head(names), sid, DiscoveredSchema(Head(names)))],
                     Tail(names), sid)

addServerTool(st, sid, name) ==
    IF \E i \in 1..Len(st) : st[i].id = sid
      THEN [i \in 1..Len(st) |->
              IF st[i].id = sid THEN [st[i] EXCEPT !.names = @ \cup {name}] ELSE st[i]]
      ELSE Append(st, [id |-> sid, names |-> {name}])

RECURSIVE AddAll(_, _, _)
AddAll(st, names, sid) ==
    IF names = <<>> THEN st ELSE AddAll(addServerTool(st, sid, Head(names)), Tail(names), sid)

----------------------------------------------------------------------------
(* Tool calls *)

ParamKeys == {"title", "parent", "query"}
ParamKinds == {"string", "object"}
Distinct(ps) == \A i, j \in 1..Len(ps) : i # j => ps[i].key # ps[j].key
ParamObjs == {ps \in SeqsUpTo([key : ParamKeys, kind : ParamKinds], MaxParams) : Distinct(ps)}

ToolCall(name, id, params) == [tool_name |-> name, tool_use_id |-> id, parameters |-> params]

\* the calls a direct executeToolCall is tried on
ExecCalls == {ToolCall(n, 0, ps) : n \in ToolNames, ps \in ParamObjs}

\* the shapes of the calls put into batches: a create_page call with the
\* parameters its schema requires, a search_pages call without its required
\* query, and a call of the hand-registered tool
GoodParams ==
    <<[key |-> "title", kind |-> "string"], [key |-> "parent", kind |-> "object"]>>
BatchShapes ==
    {<<"create_page", GoodParams>>, <<"search_pages", <<>>>>, <<"custom_tool", <<>>>>}
Batches ==
    UNION {{[i \in 1..n |-> ToolCall(f[i][1], i, f[i][2])] : f \in [1..n -> BatchShapes]} :
            n \in 0..MaxBatch}

----------------------------------------------------------------------------
(* Actions of the MCP client and the tool registry *)

NoExec == [call |-> ToolCall("", 0, <<>>), registered |-> FALSE, settled |-> NotSettled]

ToolInit ==
    /\ servers = [sid \in ServerIds |-> IF sid = NotionMcp THEN "active" ELSE "absent"]
    /\ tools = [n \in ToolNames |-> NoTool]
    /\ serverTools = <<>>
    /\ lastExec = NoExec
    /\ b_pc = "idle"
    /\ b_calls = <<>>
    /\ b_settle = <<>>
    /\ b_order = <<>>
    /\ b_results = <<>>

BatchUnchanged == UNCHANGED <<b_pc, b_calls, b_settle, b_order, b_results>>

\* no batch in flight and no result awaiting its reader
Quiet == b_pc = "idle" /\ lastExec = NoExec

\* client.ts:356-358
AddServer(sid) ==
    /\ UNCHANGED notTools
    /\ Quiet
    /\ servers' = [servers EXCEPT ![sid] = "active"]
    /\ UNCHANGED <<tools, serverTools, lastExec>> /\ BatchUnchanged

\* client.ts:363-366
RemoveServer(sid) ==
    /\ UNCHANGED notTools
    /\ Quiet
    /\ servers' = [servers EXCEPT ![sid] = "absent"]
    /\ UNCHANGED <<tools, serverTools, lastExec>> /\ BatchUnchanged

\* client.ts:371-376, with updates = {active}
UpdateServer(sid, active) ==
    /\ UNCHANGED notTools
    /\ Quiet
    /\ servers[sid] # "absent"
    /\ servers' = [servers EXCEPT ![sid] = IF active THEN "active" ELSE "inactive"]
    /\ UNCHANGED <<tools, serverTools, lastExec>> /\ BatchUnchanged

\* tools.ts:29-45
LoadServerTools(sid) ==
    /\ UNCHANGED notTools
    /\ Quiet
    /\ LET d == discoverTools(servers, sid)
       IN  /\ tools' = IF d.ok THEN RegisterAll(tools, d.tools, sid) ELSE tools
           /\ serverTools' = IF d.ok THEN AddAll(serverTools, d.tools, sid) ELSE serverTools
    /\ UNCHANGED <<servers, lastExec>> /\ BatchUnchanged

\* tools.ts:50-52, called directly with a hand-made definition
RegisterTool(name, sid) ==
    /\ UNCHANGED notTools
    /\ Quiet
    /\ tools' = [tools EXCEPT ![name] = ToolDef(name, sid, DiscoveredSchema(name))]
    /\ UNCHANGED <<servers, serverTools, lastExec>> /\ BatchUnchanged

\* tools.ts:208-211
Clear ==
    /\ UNCHANGED notTools
    /\ Quiet
    /\ tools' = [n \in ToolNames |-> NoTool]
    /\ serverTools' = <<>>
    /\ UNCHANGED <<servers, lastExec>> /\ BatchUnchanged

\* tools.ts:107-131: one direct call, run to completion
ExecuteToolCall(call) ==
    /\ UNCHANGED notTools
    /\ Quiet
    /\ lastExec' = [call |-> call, registered |-> tools[call.tool_name].present,
                    settled |-> executeToolCall(tools, serverTools, servers, call)]
    /\ UNCHANGED <<servers, tools, serverTools>> /\ BatchUnchanged

\* the caller has read the result of the direct call
ExecReturn ==
    /\ UNCHANGED notTools
    /\ lastExec # NoExec
    /\ lastExec' = NoExec
    /\ UNCHANGED <<servers, tools, serverTools>> /\ BatchUnchanged

\* tools.ts:240-242: toolCalls.map(...) starts every call; each runs up to its
\* first pending await, which fixes how its promise will settle
StartBatch(calls) ==
    /\ UNCHANGED notTools
    /\ Quiet
    /\ b_pc' = "flight"
    /\ b_calls' = calls
    /\ b_settle' = [i \in 1..Len(calls) |-> executeToolCall(tools, serverTools, servers, calls[i])]
    /\ b_order' = <<>>
    /\ b_results' = <<>>
    /\ UNCHANGED <<servers, tools, serverTools, lastExec>>

\* the promise of call i settles
Settle(i) ==
    /\ UNCHANGED notTools
    /\ b_pc = "flight"
    /\ i \in 1..Len(b_calls)
    /\ \A k \in 1..Len(b_order) : b_order[k] # i
    /\ b_order' = Append(b_order, i)
    /\ UNCHANGED <<servers, tools, serverTools, lastExec, b_pc, b_calls, b_settle, b_results>>

\* tools.ts:244-249: the entry built for input position index
BatchEntry(calls, settle, index) ==
    [tool_call |-> calls[index],
     success |-> settle[index].status = "fulfilled",
     result |-> IF settle[index].status = "fulfilled" THEN settle[index].response ELSE NoResponse,
     error |-> IF settle[index].status = "rejected" THEN settle[index].error ELSE ""]

\* tools.ts:240-249: Promise.allSettled resolves once every promise has
\* settled, with the outcomes in input order; the entries are built from them
AllSettled_SettleOrder(calls, settle, order) ==
    [k \in 1..Len(order) |-> BatchEntry(calls, settle, order[k])]

AllSettled(calls, settle, order) ==
    [index \in 1..Len(calls) |-> BatchEntry(calls, settle, index)]

BatchCollect ==
    /\ UNCHANGED notTools
    /\ b_pc = "flight"
    /\ Len(b_order) = Len(b_calls)
    /\ b_results' = AllSettled(b_calls, b_settle, b_order)
    /\ b_pc' = "done"
    /\ UNCHANGED <<servers, tools, serverTools, lastExec, b_calls, b_settle, b_order>>

\* the caller has read the batch result
BatchReturn ==
    /\ UNCHANGED notTools
    /\ b_pc = "done"
    /\ b_pc' = "idle"
    /\ b_calls' = <<>> /\ b_settle' = <<>> /\ b_order' = <<>> /\ b_results' = <<>>
    /\ UNCHANGED <<servers, tools, serverTools, lastExec>>

ToolNext ==
    \/ \E sid \in ServerIds : AddServer(sid)
    \/ \E sid \in ServerIds : RemoveServer(sid)
    \/ \E sid \in ServerIds, a \in BOOLEAN : UpdateServer(sid, a)
    \/ \E sid \in ServerIds : LoadServerTools(sid)
    \/ \E n \in ToolNames, sid \in ServerIds : RegisterTool(n, sid)
    \/ Clear
    \/ \E call \in ExecCalls : ExecuteToolCall(call)
    \/ ExecReturn
    \/ \E calls \in Batches : StartBatch(calls)
    \/ \E i \in 1..MaxBatch : Settle(i)
    \/ BatchCollect
    \/ BatchReturn

----------------------------------------------------------------------------
(* Claims about the tool registry and batch dispatch *)

\* how the call at position i of the batch in flight settled, by its cause
BatchRejected(i) == b_settle[i].status = "rejected"

\* C4: executeToolCall on a tool name that is not registered fails with
\* "Tool not found" and mcpClient.callTool is not called for it, both for a
\* direct call and for a call of a batch.
C4_NotFoundNoDispatch ==
    /\ (lastExec # NoExec /\ ~lastExec.registered) =>
          /\ lastExec.settled.status = "rejected"
          /\ lastExec.settled.error = "Tool not found"
          /\ lastExec.settled.dispatchedTo = ""
    /\ \A i \in 1..Len(b_settle) :
          ~tools[b_calls[i].tool_name].present =>
              /\ b_settle[i].status = "rejected"
              /\ b_settle[i].error = "Tool not found"
              /\ b_settle[i].dispatchedTo = ""

\* C4 witness: a direct call of an unregistered tool was rejected while its
\* server is up and other tools are registered
C4_Witness ==
    /\ lastExec # NoExec /\ ~lastExec.registered
    /\ lastExec.settled.error = "Tool not found"
    /\ servers[NotionMcp] = "active"
    /\ \E n \in ToolNames : tools[n].present

C6_DispatchFailureMarked ==
    b_pc = "done" =>
        \A i \in 1..Len(b_calls) :
            (b_settle[i].dispatchedTo # "" /\ servers[b_settle[i].dispatchedTo] # "active")
                => ~b_results[i].success

\* every violation of the tool's schema by the parameters
AllViolations(tool, params) ==
    MissingRequired(tool.input_schema, params) \o TypeMismatches(tool.input_schema, params)

ExecViolations ==
    IF lastExec # NoExec /\ lastExec.registered
         /\ tools[lastExec.call.tool_name].input_schema.hasProperties
      THEN AllViolations(tools[lastExec.call.tool_name], lastExec.call.parameters)
      ELSE <<>>

\* C7: parameters that violate the schema are rejected with an
\* error that lists every violation, and nothing is dispatched.
C7_ListsEveryViolation ==
    ExecViolations # <<>> =>
        /\ lastExec.settled.status = "rejected"
        /\ lastExec.settled.violations = ExecViolations
        /\ lastExec.settled.dispatchedTo = ""


\* C27: executeToolCall dispatches a call to the server whose id is the
\* server_id of the ToolDefinition registered under the tool name at that
\* time, for a direct call and for a call of a batch.
C27_DispatchToRegisteredServer ==
    /\ (lastExec # NoExec /\ lastExec.settled.dispatchedTo # "") =>
          lastExec.settled.dispatchedTo = tools[lastExec.call.tool_name].server_id
    /\ \A i \in 1..Len(b_settle) :
          b_settle[i].dispatchedTo # "" =>
              b_settle[i].dispatchedTo = tools[b_calls[i].tool_name].server_id
----------------------------------------------------------------------------
(* lib/storage (file-backed): templates.json *)

TemplateIds == {"a", "b"}

\* the content of a stored template apart from id, flags and timestamps
Body(title, description, blocks, theme) ==
    [title |-> title, description |-> description, blocks |-> blocks, theme |-> theme]

StoredTemplate(id, body, created, updated, public) ==
    [id |-> id, title |-> body.title, description |-> body.description,
     blocks |-> body.blocks, theme |-> body.theme,
     created_at |-> created, updated_at |-> updated, is_public |-> public]

NoStored == StoredTemplate("", Body(EmptyString, EmptyString, <<>>, ""), 0, 0, FALSE)

\* the form data createTemplate is given: "plan a trip", or MaxWords words
FormData ==
    [description : {<<4, 1, 4>>, [i \in 1..MaxWords |-> WordLen]}, theme_name : {"light"}]

\* storage:168-171: description.split(' ').slice(0, 6).join(' ')
generateTitleFromDescription(description) == FirstWords(description, STORE_TITLE_WORDS)

\* the times a new Date() may return at or after time t
Later(t) == {u \in t..MaxTime : u <= t + 1}

\* the ids stored
Ids(templates) == {templates[i].id : i \in 1..Len(templates)}

\* storage:111-114 (find): the first template with the id, or NoStored
IndexOf(templates, id) ==
    LET idx == {i \in 1..Len(templates) : templates[i].id = id}
    IN  IF idx = {} THEN 0 ELSE CHOOSE i \in idx : \A j \in idx : i <= j

loadTemplate(templates, id) ==
    IF IndexOf(templates, id) = 0 THEN NoStored ELSE templates[IndexOf(templates, id)]

\* storage:95-106: the array saveTemplate writes, now being the time it reads
saveTemplate_Append(templates, t, now) == Append(templates, t)

saveTemplate(templates, t, now) ==
    LET existingIndex == IndexOf(templates, t.id)
    IN  IF existingIndex > 0
          THEN [templates EXCEPT ![existingIndex] = [t EXCEPT !.updated_at = now]]
          ELSE Append(templates, t)

\* storage:121: the array without the templates of that id
deleteFilter_KeepFirst(templates, id) ==
    IF Len(templates) = 0 THEN templates ELSE Tail(templates)

deleteFilter(templates, id) == SelectSeq(templates, LAMBDA t : t.id # id)

\* a Partial<Template>: per field, whether it is given and its value
NoUpdates ==
    [has |-> {}, id |-> "", title |-> EmptyString, created_at |-> 0, updated_at |-> 0,
     is_public |-> FALSE]
UpdateInputs ==
    {NoUpdates}
    \cup {[NoUpdates EXCEPT !.has = {"id"}, !.id = i] : i \in TemplateIds}
    \cup {[NoUpdates EXCEPT !.has = {"title"}, !.title = <<6, 5>>]}
    \cup {[NoUpdates EXCEPT !.has = {"is_public"}, !.is_public = b] : b \in BOOLEAN}
    \cup {[NoUpdates EXCEPT !.has = {"created_at"}, !.created_at = MaxTime]}
    \cup {[NoUpdates EXCEPT !.has = {"updated_at"}, !.updated_at = 0]}

\* storage:236-240: { ...template, ...updates, updated_at: now }
mergeUpdates(t, u, now) ==
    [id |-> IF "id" \in u.has THEN u.id ELSE t.id,
     title |-> IF "title" \in u.has THEN u.title ELSE t.title,
     description |-> t.description,
     blocks |-> t.blocks,
     theme |-> t.theme,
     created_at |-> IF "created_at" \in u.has THEN u.created_at ELSE t.created_at,
     updated_at |-> now,
     is_public |-> IF "is_public" \in u.has THEN u.is_public ELSE t.is_public]

\* storage:255-259: { ...template, is_public: !template.is_public, updated_at: now }
togglePublic_ResetCreated(t, now) ==
    [t EXCEPT !.is_public = ~t.is_public, !.updated_at = now, !.created_at = now]

togglePublic(t, now) == [t EXCEPT !.is_public = ~t.is_public, !.updated_at = now]

\* the templates saveTemplate is called with directly
SaveInputs ==
    {StoredTemplate(id, Body(<<4, 1, 4>>, <<4, 1, 4>>, <<>>, "light"), c, c, FALSE) :
        id \in TemplateIds, c \in {0, MaxTime}}

\* an item of the array importTemplates parses: valid tells whether id, title
\* and description are all truthy
ImportItem(id, valid, created) == [id |-> id, valid |-> valid, created_at |-> created]
ImportItems ==
    {ImportItem("", FALSE, 0)}
    \cup {ImportItem(id, TRUE, c) : id \in TemplateIds, c \in {0, MaxTime}}
ImportInputs == UNION {[1..n -> ImportItems] : n \in 1..MaxImport}

\* storage:316-319: { ...templateData, updated_at: now } under the id it ends with
ImportedTemplate_KeepId(item, id, now) ==
    StoredTemplate(item.id, Body(<<4, 1, 4>>, <<4, 1, 4>>, <<>>, "light"), item.created_at, now, FALSE)

ImportedTemplate(item, id, now) ==
    StoredTemplate(id, Body(<<4, 1, 4>>, <<4, 1, 4>>, <<>>, "light"), item.created_at, now, FALSE)

\* storage:304-326: the loop over the items from item i on; ids[i] is what
\* nanoid() returns if it is called for item i; called is the set of items it
\* was called for, and fresh tells whether every nanoid() result was an id not
\* stored at that moment
RECURSIVE importLoop(_, _, _, _, _)
importLoop(templates, items, ids, now, i) ==
    IF i > Len(items)
      THEN [store |-> templates, imported |-> 0, errors |-> 0, fresh |-> TRUE,
            called |-> {}]
    ELSE IF ~items[i].valid
      THEN LET r == importLoop(templates, items, ids, now, i + 1)
           IN  [r EXCEPT !.errors = @ + 1]
    ELSE LET collides == IndexOf(templates, items[i].id) > 0
             id == IF collides THEN ids[i] ELSE items[i].id
             saved == saveTemplate(templates, ImportedTemplate(items[i], id, now), now)
             r == importLoop(saved, items, ids, now, i + 1)
         IN  [r EXCEPT !.imported = @ + 1,
                       !.fresh = @ /\ (collides => IndexOf(templates, id) = 0),
                       !.called = IF collides THEN @ \cup {i} ELSE @]

NoImport == [n |-> 0, imported |-> 0, errors |-> 0, renamed |-> 0]

\* the two variants of the storage module are alternatives: a run uses the
\* file-backed one or the localStorage one
FileVariant == localStore = <<>>
LocalVariant == store = <<>> /\ clock = 0

Op(op, id, found, ret, writes) ==
    [op |-> op, id |-> id, found |-> found, ret |-> ret, writes |-> writes]

StoreInit ==
    /\ store = <<>>
    /\ clock = 0
    /\ lastOp = Op("none", "", FALSE, NoStored, 0)
    /\ lastImport = NoImport
    /\ localStore = <<>>

\* storage:134-163, with nanoid() an id no stored template has
CreateTemplate(formData, id) ==
    /\ UNCHANGED <<notStore, lastImport, localStore>>
    /\ FileVariant
    /\ Len(store) < MaxStore
    /\ IndexOf(store, id) = 0
    /\ \E t1 \in Later(clock) : \E t2 \in Later(t1) :
          LET t == StoredTemplate(id,
                       Body(generateTitleFromDescription(formData.description),
                            formData.description, <<>>, formData.theme_name),
                       t1, t2, FALSE)
          IN  /\ store' = saveTemplate(store, t, t2)
              /\ clock' = t2
              /\ lastOp' = Op("create", id, FALSE, t, 1)

\* storage:227-244
UpdateTemplate(id, updates) ==
    /\ UNCHANGED <<notStore, lastImport, localStore>>
    /\ FileVariant
    /\ LET t == loadTemplate(store, id)
       IN  IF t = NoStored
             THEN /\ lastOp' = Op("update", id, FALSE, NoStored, 0)
                  /\ UNCHANGED <<store, clock>>
             ELSE \E t1 \in Later(clock) : \E t2 \in Later(t1) :
                    LET updated == mergeUpdates(t, updates, t1)
                    IN  /\ store' = saveTemplate(store, updated, t2)
                        /\ clock' = t2
                        /\ lastOp' = Op("update", id, TRUE, updated, 1)

\* storage:249-263
ToggleTemplatePublic(id) ==
    /\ UNCHANGED <<notStore, lastImport, localStore>>
    /\ FileVariant
    /\ LET t == loadTemplate(store, id)
       IN  IF t = NoStored
             THEN /\ lastOp' = Op("toggle", id, FALSE, NoStored, 0)
                  /\ UNCHANGED <<store, clock>>
             ELSE \E t1 \in Later(clock) : \E t2 \in Later(t1) :
                    LET updated == togglePublic(t, t1)
                    IN  /\ store' = saveTemplate(store, updated, t2)
                        /\ clock' = t2
                        /\ lastOp' = Op("toggle", id, TRUE, updated, 1)

\* storage:119-129
DeleteTemplate(id) ==
    /\ UNCHANGED <<notStore, lastImport, localStore>>
    /\ FileVariant
    /\ LET filtered == deleteFilter(store, id)
       IN  IF Len(filtered) = Len(store)
             THEN /\ lastOp' = Op("delete", id, FALSE, NoStored, 0)
                  /\ UNCHANGED <<store, clock>>
             ELSE /\ store' = filtered
                  /\ lastOp' = Op("delete", id, TRUE, NoStored, 1)
                  /\ UNCHANGED clock

\* storage:95-106 called directly
SaveTemplate(t) ==
    /\ UNCHANGED <<notStore, lastImport, localStore>>
    /\ FileVariant
    /\ Len(store) < MaxStore \/ IndexOf(store, t.id) > 0
    /\ \E now \in Later(clock) :
          /\ store' = saveTemplate(store, t, now)
          /\ clock' = now
          /\ lastOp' = Op("save", t.id, IndexOf(store, t.id) > 0, t, 1)

\* storage:295-335 on JSON that parses to the array items
ImportTemplates(items) ==
    /\ UNCHANGED <<notStore, localStore>>
    /\ FileVariant
    /\ Len(store) + Len(items) <= MaxStore
    /\ \E now \in Later(clock) : \E ids \in [1..Len(items) -> TemplateIds] :
          LET r == importLoop(store, items, ids, now, 1)
          IN  /\ r.fresh
              /\ \A i \in 1..Len(items) : i \notin r.called => ids[i] = "a"
              /\ store' = r.store
              /\ clock' = now
              /\ lastOp' = Op("import", "", FALSE, NoStored, r.imported)
              /\ lastImport' = [n |-> Len(items), imported |-> r.imported,
                                errors |-> r.errors, renamed |-> Cardinality(r.called)]

StoreNext ==
    \/ \E f \in FormData, id \in TemplateIds : CreateTemplate(f, id)
    \/ \E id \in TemplateIds, u \in UpdateInputs : UpdateTemplate(id, u)
    \/ \E id \in TemplateIds : ToggleTemplatePublic(id)
    \/ \E id \in TemplateIds : DeleteTemplate(id)

\* storage (localStorage variant):5-14
saveTemplateLocal(templates, t) ==
    LET index == IndexOf(templates, t.id)
    IN  IF index > 0 THEN [templates EXCEPT ![index] = t] ELSE Append(templates, t)

LocalSaveTemplate(t) ==
    /\ UNCHANGED <<notStore, store, clock, lastImport>>
    /\ LocalVariant
    /\ Len(localStore) < MaxStore \/ IndexOf(localStore, t.id) > 0
    /\ localStore' = saveTemplateLocal(localStore, t)
    /\ lastOp' = Op("localSave", t.id, IndexOf(localStore, t.id) > 0, t, 1)

\* storage (localStorage variant):32-35
LocalDeleteTemplate(id) ==
    /\ UNCHANGED <<notStore, store, clock, lastImport>>
    /\ LocalVariant
    /\ localStore' = deleteFilter(localStore, id)
    /\ lastOp' = Op("localDelete", id, IndexOf(localStore, id) > 0, NoStored, 1)

\* the templates the browser variant is given
LocalInputs == {t \in SaveInputs : t.created_at = 0}

\* every storage operation that writes, on the inputs that decide ids and
\* timestamps: updates of the id and of created_at, or none
IdAndTimeUpdates == {u \in UpdateInputs : u.has \subseteq {"id", "created_at"}}
PlanATrip == {f \in FormData : Len(f.description) = 3}

StoreAllNext ==
    \/ \E f \in PlanATrip, id \in TemplateIds : CreateTemplate(f, id)
    \/ \E t \in SaveInputs : SaveTemplate(t)
    \/ \E id \in TemplateIds, u \in IdAndTimeUpdates : UpdateTemplate(id, u)
    \/ \E id \in TemplateIds : ToggleTemplatePublic(id)
    \/ \E items \in ImportInputs : ImportTemplates(items)
    \/ \E id \in TemplateIds : DeleteTemplate(id)
    \/ \E t \in LocalInputs : LocalSaveTemplate(t)
    \/ \E id \in TemplateIds : LocalDeleteTemplate(id)

----------------------------------------------------------------------------
(* Serialization of the store: JSON.stringify / JSON.parse (storage:59-90) *)

\* JavaScript values a block property may hold, by kind; the first four are
\* the ones JSON has
JsonAtoms == {"string", "number", "boolean", "null"}
JsAtoms == JsonAtoms \cup {"undefined", "NaN", "date"}

\* a property of a block: key and value; a value is an atom or an array of atoms
PropEntry(key, val) == [key |-> key, val |-> val]
AtomVal(kind) == [t |-> "atom", kind |-> kind, items |-> <<>>]
ArrayVal(items) == [t |-> "array", kind |-> "", items |-> items]

\* a TemplateBlock with its optional level, properties and children
FullBlock(type, hasLevel, properties, children) ==
    [type |-> type, hasLevel |-> hasLevel, properties |-> properties,
     children |-> children]

\* JSON.stringify of an atom in an array: undefined and NaN become null, a
\* Date becomes its ISO string
stringifyAtom(kind) ==
    IF kind \in {"undefined", "NaN"} THEN "null"
    ELSE IF kind = "date" THEN "string"
    ELSE kind

stringifyVal(v) ==
    IF v.t = "atom" THEN AtomVal(stringifyAtom(v.kind))
    ELSE ArrayVal([i \in 1..Len(v.items) |-> stringifyAtom(v.items[i])])

\* JSON.stringify of an object's entries: an entry whose value is undefined
\* is left out, the others keep their order
stringifyProps(props) ==
    LET kept == SelectSeq(props, LAMBDA e : ~(e.val.t = "atom" /\ e.val.kind = "undefined"))
    IN  [i \in 1..Len(kept) |-> PropEntry(kept[i].key, stringifyVal(kept[i].val))]

\* The JSON text of a block array is represented by its blocks in document
\* order, each with its nesting depth: a block is followed by its children.
JsonBlock(b, depth) ==
    [depth |-> depth, type |-> b.type, hasLevel |-> b.hasLevel,
     properties |-> stringifyProps(b.properties)]

RECURSIVE stringifyBlocks_NoChildren(_, _)
stringifyBlocks_NoChildren(blocks, depth) ==
    IF blocks = <<>> THEN <<>>
    ELSE <<JsonBlock(Head(blocks), depth)>>
         \o stringifyBlocks_NoChildren(Tail(blocks), depth)

RECURSIVE stringifyBlocks(_, _)
stringifyBlocks(blocks, depth) ==
    IF blocks = <<>> THEN <<>>
    ELSE <<JsonBlock(Head(blocks), depth)>>
         \o stringifyBlocks(Head(blocks).children, depth + 1)
         \o stringifyBlocks(Tail(blocks), depth)

\* storage:84: JSON.stringify(templates, null, 2), as the JSON document written
stringifyTemplates(templates) ==
    [i \in 1..Len(templates) |->
        [templates[i] EXCEPT !.blocks = stringifyBlocks(templates[i].blocks, 0)]]

\* the number of leading blocks of the document that lie deeper than depth
RECURSIVE Deeper(_, _)
Deeper(doc, depth) ==
    IF doc = <<>> \/ Head(doc).depth <= depth THEN 0 ELSE 1 + Deeper(Tail(doc), depth)

\* JSON.parse of the text of a block array whose blocks are at this depth
RECURSIVE parseBlocks(_, _)
parseBlocks(doc, depth) ==
    IF doc = <<>> THEN <<>>
    ELSE LET n == Deeper(Tail(doc), depth)
         IN  <<FullBlock(Head(doc).type, Head(doc).hasLevel, Head(doc).properties,
                         parseBlocks(SubSeq(doc, 2, n + 1), depth + 1))>>
             \o parseBlocks(SubSeq(doc, n + 2, Len(doc)), depth)

\* storage:69-71: JSON.parse of the document read
parseTemplates(doc) ==
    [i \in 1..Len(doc) |-> [doc[i] EXCEPT !.blocks = parseBlocks(doc[i].blocks, 0)]]

\* the blocks of the templates saved: JSON documents, as the callers obtain
\* them from a parsed response body
JsonVals ==
    {AtomVal("string"), AtomVal("null"), ArrayVal(<<"number", "string">>)}
LeafBlocks ==
    {FullBlock("paragraph", FALSE, <<>>, <<>>),
     FullBlock("heading", TRUE, <<PropEntry("level", AtomVal("number"))>>, <<>>)}
DocBlocks ==
    LeafBlocks
    \cup {FullBlock("paragraph", FALSE, <<PropEntry("k", v)>>, <<>>) : v \in JsonVals}
    \cup {FullBlock("heading", TRUE, <<PropEntry("a", AtomVal("null")), PropEntry("b", v)>>, c) :
            v \in JsonVals,
            c \in {<<FullBlock("paragraph", FALSE, <<>>, <<>>)>>,
                   <<FullBlock("heading", TRUE, <<PropEntry("level", AtomVal("number"))>>, <<>>),
                     FullBlock("paragraph", FALSE, <<>>, <<>>)>>}}
TemplateDocs ==
    {[StoredTemplate(id, Body(<<4, 1, 4>>, <<4, 1, 4>>, <<>>, "light"), 0, 0, FALSE)
         EXCEPT !.blocks = b] :
        id \in TemplateIds, b \in SeqsUpTo(DocBlocks, MaxBlocks) \ {<<>>}}

RtInit == rt = [pc |-> "idle", given |-> NoStored, loaded |-> NoStored]

\* the store holds one template, of id "b", or none
RtStores ==
    {<<>>, <<StoredTemplate("b", Body(<<4, 1, 4>>, <<4, 1, 4>>, <<>>, "light"), 0, 0, FALSE)>>}
RtStoreInit ==
    /\ store \in RtStores
    /\ clock = 0
    /\ lastOp = Op("none", "", FALSE, NoStored, 0)
    /\ lastImport = NoImport
    /\ localStore = <<>>

\* storage:95-106 with 80-90: saveTemplate(t) for an id that is not stored
RtSave(t) ==
    /\ UNCHANGED <<genVars, toolVars, clock, lastOp, lastImport, localStore, vd, http, cs, ld>>
    /\ rt.pc = "idle"
    /\ IndexOf(store, t.id) = 0
    /\ store' = stringifyTemplates(saveTemplate(parseTemplates(store), t, clock))
    /\ rt' = [pc |-> "saved", given |-> t, loaded |-> NoStored]

\* storage:111-114 with 59-75: loadTemplate(id) of the id just saved
RtLoad ==
    /\ UNCHANGED <<genVars, toolVars, storeVars, vd, http, cs, ld>>
    /\ rt.pc = "saved"
    /\ rt' = [rt EXCEPT !.pc = "loaded",
                        !.loaded = loadTemplate(parseTemplates(store), rt.given.id)]

RtNext ==
    \/ \E t \in TemplateDocs : RtSave(t)
    \/ RtLoad

----------------------------------------------------------------------------
(* lib/ai/llama.ts (ENABLE_LOCAL_LLAMA = true) and the models/validate route *)

\* the paths given, and what fs.stat finds there at the time of the call
ModelNames ==
    {[stem |-> "p", ext |-> ".gguf"], [stem |-> "q", ext |-> ".GGUF"],
     [stem |-> "r", ext |-> ".bin"], [stem |-> "../p", ext |-> ".gguf"]}
NoName == [stem |-> "", ext |-> ""]
FileStats ==
    {[exists |-> FALSE, size |-> 0]}
    \cup {[exists |-> TRUE, size |-> n] :
             n \in {MIN_MODEL_BYTES - 1, MIN_MODEL_BYTES, MIN_MODEL_BYTES + 1}}

\* modelPath.toLowerCase().endsWith(".gguf")
isGGUF(name) ==
    (CASE name.ext = ".GGUF" -> ".gguf" [] OTHER -> name.ext) = ".gguf"

\* llama.ts:58-69
validateModel(name, stat) ==
    stat.exists /\ isGGUF(name) /\ stat.size > MIN_MODEL_BYTES

\* models/validate route: POST, the `valid` of its answer
validateRoute(name, stat) ==
    IF name = NoName THEN FALSE                       \* "Model path is required"
    ELSE IF name.stem = "../p" THEN FALSE             \* normalized.includes("..")
    ELSE IF ~stat.exists THEN FALSE                   \* fs.stat throws
    ELSE IF ~isGGUF(name) THEN FALSE
    ELSE IF stat.size < MIN_MODEL_BYTES THEN FALSE
    ELSE TRUE

\* a LlamaModel: the path it was loaded from, and which load produced it
NoModel == [null |-> TRUE, from |-> NoName, serial |-> 0]
Model(name, serial) == [null |-> FALSE, from |-> name, serial |-> serial]
NoCall == [op |-> "none", path |-> NoName, stat |-> [exists |-> FALSE, size |-> 0],
           threw |-> "", returned |-> NoModel, valid |-> FALSE]
LoaderInit ==
    [loadedModel |-> NoModel, currentModelPath |-> NoName, llamaInstance |-> FALSE,
     loads |-> 0, last |-> NoCall]

\* llama.ts:71-107: the loader after loadModel(name); initOk and loadOk tell
\* whether getLlama() and llama.loadModel() succeed if they are reached
Threw(l, name, stat, msg) ==
    [l EXCEPT !.last = [NoCall EXCEPT !.op = "loadModel", !.path = name, !.stat = stat,
                                      !.threw = msg]]
Returned(l, name, stat, model) ==
    [l EXCEPT !.last = [NoCall EXCEPT !.op = "loadModel", !.path = name, !.stat = stat,
                                      !.returned = model]]
loadModel(l, name, stat, initOk, loadOk) ==
    IF ~validateModel(name, stat)
      THEN Threw(l, name, stat, "Invalid model file. Must be a .gguf file at least 100MB.")
    ELSE IF l.currentModelPath = name /\ ~l.loadedModel.null
      THEN Returned(l, name, stat, l.loadedModel)
    ELSE LET l1 == IF ~l.loadedModel.null /\ l.currentModelPath # name
                     THEN [l EXCEPT !.loadedModel = NoModel] ELSE l
         IN  IF ~l1.llamaInstance /\ ~initOk
               THEN Threw(l1, name, stat, "getLlama failed")
             ELSE IF ~loadOk
               THEN Threw([l1 EXCEPT !.llamaInstance = TRUE], name, stat, "loadModel failed")
             ELSE Returned([l1 EXCEPT !.llamaInstance = TRUE,
                                      !.loadedModel = Model(name, l.loads + 1),
                                      !.currentModelPath = name,
                                      !.loads = l.loads + 1],
                           name, stat, Model(name, l.loads + 1))

\* llama.ts:121-127
getModelStatus(l) ==
    [available |-> ~l.loadedModel.null, loading |-> FALSE, model_path |-> l.currentModelPath]

LlamaLoadModel(name, stat, initOk, loadOk) ==
    /\ UNCHANGED <<genVars, toolVars, storeVars, rt, vd, http, cs>>
    /\ ld.loads < MaxLoads
    /\ ld' = loadModel(ld, name, stat, initOk, loadOk)

\* llama.ts:129-138
LlamaDispose ==
    /\ UNCHANGED <<genVars, toolVars, storeVars, rt, vd, http, cs>>
    /\ ld' = [ld EXCEPT !.loadedModel = NoModel, !.llamaInstance = FALSE,
                        !.currentModelPath = NoName,
                        !.last = [NoCall EXCEPT !.op = "dispose"]]

\* models/validate route: POST {modelPath}
PostValidate(name, stat) ==
    /\ UNCHANGED <<genVars, toolVars, storeVars, rt, vd, http, cs>>
    /\ ld' = [ld EXCEPT !.last = [NoCall EXCEPT !.op = "validate", !.path = name,
                                                !.stat = stat,
                                                !.valid = validateRoute(name, stat)]]

LoaderNext ==
    \/ \E name \in ModelNames, stat \in FileStats, initOk, loadOk \in BOOLEAN :
          LlamaLoadModel(name, stat, initOk, loadOk)
    \/ LlamaDispose
    \/ \E name \in ModelNames \cup {NoName}, stat \in FileStats : PostValidate(name, stat)

\* C28: in every state loadModel and dispose calls of the enabled loader
\* lead to, getModelStatus reports available = true exactly when model_path
\* is not null, and the model loaded is the one loaded from model_path; a
\* successful loadModel of the path already loaded returns the cached model.
C28_StatusConsistent ==
    LET st == getModelStatus(ld)
    IN  /\ st.available <=> st.model_path # NoName
        /\ st.model_path # NoName => ld.loadedModel.from = st.model_path
        /\ (ld.last.op = "loadModel" /\ ld.last.threw = "") =>
              ld.last.returned = ld.loadedModel

\* C30: the models/validate route and the loader's validateModel agree: a
\* file the route reports as valid (.gguf, at least MIN_MODEL_BYTES bytes) is
\* accepted by validateModel, and loadModel does not reject it as invalid.
C30_RouteAndLoaderAgree ==
    /\ (ld.last.op = "validate" /\ ld.last.valid) =>
          validateModel(ld.last.path, ld.last.stat)
    /\ (ld.last.op = "loadModel" /\ validateRoute(ld.last.path, ld.last.stat)) =>
          ld.last.threw # "Invalid model file. Must be a .gguf file at least 100MB."

----------------------------------------------------------------------------
(* lib/validation.ts: the zod schemas of the API routes *)

\* an issue zod raises: the path of the field and the kind of violation
Issue(path, code) == [path |-> path, code |-> code]

\* err.path: a top-level field, or field i of an element of an array field
Path(field) == [field |-> field, index |-> 0, sub |-> ""]
ElemPath(field, i, sub) == [field |-> field, index |-> i, sub |-> sub]

\* A payload field is "absent" or holds a value.  A description is given by
\* whether it is present and its length in characters.
Absent == "absent"
Str(len) == [present |-> TRUE, len |-> len]
NoStr == [present |-> FALSE, len |-> 0]
DescLengths ==
    {0, DESC_MIN - 1, DESC_MIN, DESC_MAX, DESC_MAX + 1, LONG_DESC_MAX, LONG_DESC_MAX + 1}
ThemeEnum == {"light", "dark", "system", "custom"}
ThemeValues == {Absent, "dark", "system", "neon"}
BoolValues == {Absent, "true", "false"}
ServerLists == {Absent, "[]", "['notion-mcp']"}

\* the JSON bodies sent to POST /generate
RequestPayloads ==
    [description : {Str(n) : n \in DescLengths} \cup {NoStr}, theme : ThemeValues, useMCP : BoolValues,
     selectedServers : ServerLists]

\* z.string().min(min).max(max)
StringIssues(path, v, min, max) ==
    IF ~v.present THEN <<Issue(path, "invalid_type")>>
    ELSE IF v.len < min THEN <<Issue(path, "too_small")>>
    ELSE IF v.len > max THEN <<Issue(path, "too_big")>>
    ELSE <<>>

\* z.enum(values)
EnumIssues_Coerce(path, v, values) == <<>>

EnumIssues(path, v, values) ==
    IF v = Absent THEN <<Issue(path, "invalid_type")>>
    ELSE IF v \notin values THEN <<Issue(path, "invalid_enum_value")>>
    ELSE <<>>

\* z.boolean(), z.array(z.string()): required, no default
RequiredIssues(path, v) == IF v = Absent THEN <<Issue(path, "invalid_type")>> ELSE <<>>

\* what schema.parse yields: the parsed data, or the ZodError with its issues
ParseResult(issues, data, none) ==
    [success |-> issues = <<>>, data |-> IF issues = <<>> THEN data ELSE none,
     issues |-> issues]

NoRequest == [description |-> NoStr, theme |-> Absent, useMCP |-> Absent,
              selectedServers |-> Absent]

\* validation.ts:3-8
GenerationRequestSchema(p) ==
    ParseResult(StringIssues(Path("description"), p.description, DESC_MIN, DESC_MAX)
                \o EnumIssues(Path("theme"), p.theme, ThemeEnum)
                \o RequiredIssues(Path("useMCP"), p.useMCP)
                \o RequiredIssues(Path("selectedServers"), p.selectedServers),
                p, NoRequest)

\* the templates validated: theme and block types vary, the other fields
\* (id, title, description, createdAt, block ids and contents) are valid
BlockTypeEnum == {"heading", "paragraph", "database", "table"}
BlockTypeValues == {"heading", "table", "quote", "callout"}
TemplatePayloads ==
    [description : {Str(DESC_MIN)}, theme : ThemeValues \ {Absent}, useMCP : {Absent},
     selectedServers : {Absent}, blocks : SeqsUpTo(BlockTypeValues, MaxBlocks)]

RECURSIVE BlockIssues(_, _)
BlockIssues(blocks, i) ==
    IF i > Len(blocks) THEN <<>>
    ELSE EnumIssues(ElemPath("blocks", i, "type"), blocks[i], BlockTypeEnum)
         \o BlockIssues(blocks, i + 1)

\* validation.ts:12-28
TemplateSchema(p) ==
    ParseResult(EnumIssues(Path("theme"), p.theme, ThemeEnum) \o BlockIssues(p.blocks, 1),
                p, NoRequest)

\* one validation per behaviour: a validation reads nothing but its argument,
\* so a second one is the first one of another behaviour
\* no saveTemplate call in flight
NoSaver == [pc |-> "idle", template |-> NoStored, templates |-> <<>>]
NoSaves == [before |-> <<>>, call |-> [p \in 1..2 |-> NoSaver]]

NoValidation == [schema |-> "", payload |-> NoRequest, result |-> ParseResult(<<>>, NoRequest, NoRequest)]
CallInit ==
    /\ RtInit
    /\ vd = NoValidation
    /\ http = NoHttp
    /\ cs = NoSaves
    /\ ld = LoaderInit

\* route.ts:11-14: GenerationRequestSchema.parse(body)
ParseRequest(p) ==
    /\ vd = NoValidation
    /\ UNCHANGED <<genVars, toolVars, storeVars, rt, cs, ld>>
    /\ vd' = [schema |-> "GenerationRequest", payload |-> p,
              result |-> GenerationRequestSchema(p)]
    /\ http' = IF GenerationRequestSchema(p).success THEN NoHttp
               ELSE Http(400, ErrorBody("Invalid request format", TRUE))

\* part_001:52-60: the request schema of the second validation module
\* (theme and includeImages are valid in every payload)
ComplexityEnum == {"simple", "intermediate", "advanced"}
FullRequestPayloads ==
    [description : {Str(n) : n \in DescLengths} \cup {NoStr}, useMCP : BoolValues,
     selectedMCPServers : ServerLists, complexity : {Absent, "simple", "expert"}]
NoFullRequest == [description |-> NoStr, useMCP |-> Absent, selectedMCPServers |-> Absent,
                  complexity |-> Absent]
FullRequestSchema(p) ==
    ParseResult(StringIssues(Path("description"), p.description, DESC_MIN, LONG_DESC_MAX)
                \o RequiredIssues(Path("useMCP"), p.useMCP)
                \o RequiredIssues(Path("selectedMCPServers"), p.selectedMCPServers)
                \o EnumIssues(Path("complexity"), p.complexity, ComplexityEnum),
                p, NoFullRequest)

\* err.path.join('.'): array positions are printed from 0
JoinPath(path) ==
    IF path.index = 0 THEN (IF path.sub = "" THEN <<path.field>> ELSE <<path.field, path.sub>>)
    ELSE <<path.field, ToString(path.index - 1), path.sub>>

\* `${err.path.join('.')}: ${err.message}`
FormatIssue(err) == JoinPath(err.path) \o <<": ", err.code>>

\* part_001:117-144
validateWithErrors_FirstOnly(parsed, none) ==
    IF parsed.success
    THEN [success |-> TRUE, data |-> parsed.data, errors |-> <<>>]
    ELSE [success |-> FALSE, data |-> none, errors |-> <<FormatIssue(parsed.issues[1])>>]

validateWithErrors(parsed, none) ==
    IF parsed.success
    THEN [success |-> TRUE, data |-> parsed.data, errors |-> <<>>]
    ELSE [success |-> FALSE, data |-> none,
          errors |-> [i \in 1..Len(parsed.issues) |-> FormatIssue(parsed.issues[i])]]

\* part_001:160-166
validateGenerationRequest(data) == validateWithErrors(FullRequestSchema(data), NoFullRequest)

ValidateGenerationRequest(p) ==
    /\ vd = NoValidation
    /\ UNCHANGED <<genVars, toolVars, storeVars, rt, http, cs, ld>>
    /\ vd' = [schema |-> "validateGenerationRequest", payload |-> p,
              result |-> FullRequestSchema(p), out |-> validateGenerationRequest(p)]

\* TemplateSchema.parse(template)
ParseTemplate(p) ==
    /\ vd = NoValidation
    /\ UNCHANGED <<genVars, toolVars, storeVars, rt, http, cs, ld>>
    /\ vd' = [schema |-> "Template", payload |-> p, result |-> TemplateSchema(p)]

\* Theme colors (part_001:22-37, 215-217, 323-351).  A color is spelled
\* character by character.
HexDigits == {"0", "1", "2", "3", "4", "5", "6", "7", "8", "9",
              "a", "b", "c", "d", "e", "f", "A", "B", "C", "D", "E", "F"}
ColorNames == <<"primary", "secondary", "background", "surface", "text", "accent">>
SpacingEnum == {"compact", "comfortable", "spacious"}

\* the color strings validated: a prefix, n digits of which the one at
\* position bad (if any) is not hexadecimal, and possibly a trailing blank
DigitAt(i) == <<"a", "F", "0", "9", "c", "E", "1", "B">>[((i - 1) % 8) + 1]
ColorString(made) ==
    made.prefix
    \o [i \in 1..made.n |-> IF i = made.bad THEN "g" ELSE DigitAt(i)]
    \o (IF made.extra THEN <<" ">> ELSE <<>>)
ColorsMade ==
    {m \in [prefix : {<<>>, <<"#">>, <<"#", "#">>}, n : 0..MaxHex, bad : 0..MaxHex,
             extra : BOOLEAN] : m.bad \in {0, 1, m.n}}

\* the themes validated: the color of field k is the one made, the others
\* are valid
ThemePayloads ==
    {[made |-> m, k |-> k,
      colors |-> [i \in 1..Len(ColorNames) |->
                    IF i = k THEN ColorString(m) ELSE <<"#", "0", "a", "F">>],
      body |-> body, spacing |-> sp] :
        m \in ColorsMade, k \in 1..Len(ColorNames), body \in {<<>>, <<"I", "n", "t", "e", "r">>},
        sp \in {"compact", "wide"}}

\* n hexadecimal digits from position i on
MatchHex(color, i, n) ==
    /\ Len(color) >= i + n - 1
    /\ \A j \in i..(i + n - 1) : color[j] \in HexDigits

\* part_001:215-217: /^#([A-Fa-f0-9]{6}|[A-Fa-f0-9]{3})$/.test(color)
isValidColor_AnyLength(color) ==
    /\ Len(color) >= 4 /\ Len(color) <= 7
    /\ color[1] = "#"
    /\ MatchHex(color, 2, Len(color) - 1)

isValidColor(color) ==
    /\ color # <<>>
    /\ color[1] = "#"
    /\ \/ MatchHex(color, 2, 6) /\ Len(color) = 7
       \/ MatchHex(color, 2, 3) /\ Len(color) = 4

\* part_001:323-351
ThemeError(text, index, color) == [text |-> text, index |-> index, color |-> color]
RECURSIVE ColorErrors(_, _)
ColorErrors(colors, i) ==
    IF i > Len(colors) THEN <<>>
    ELSE (IF ~isValidColor(colors[i])
            THEN <<ThemeError("Invalid color at index", i - 1, colors[i])>> ELSE <<>>)
         \o ColorErrors(colors, i + 1)
validateTheme(theme) ==
    LET errors == ColorErrors(theme.colors, 1)
                  \o (IF theme.body = <<>>
                        THEN <<ThemeError("Both heading and body fonts are required", 0, <<>>)>>
                        ELSE <<>>)
                  \o (IF theme.spacing \notin SpacingEnum
                        THEN <<ThemeError("Invalid spacing value", 0, <<>>)>> ELSE <<>>)
    IN  [valid |-> errors = <<>>, errors |-> errors]

\* part_001:22-37: the issues of TemplateThemeSchema
RECURSIVE ColorIssues(_, _)
ColorIssues(colors, i) ==
    IF i > Len(colors) THEN <<>>
    ELSE (IF ~isValidColor(colors[i])
            THEN <<Issue(ElemPath("colors", 0, ColorNames[i]), "invalid_string")>> ELSE <<>>)
         \o ColorIssues(colors, i + 1)
TemplateThemeSchema(theme) ==
    ColorIssues(theme.colors, 1)
    \o (IF theme.body = <<>> THEN <<Issue(ElemPath("fonts", 0, "body"), "too_small")>> ELSE <<>>)
    \o EnumIssues(Path("spacing"), theme.spacing, SpacingEnum)

\* validateTheme(theme), and TemplateThemeSchema.parse(theme) reported by
\* validateWithErrors
ValidateTheme(p) ==
    /\ vd = NoValidation
    /\ UNCHANGED <<genVars, toolVars, storeVars, rt, http, cs, ld>>
    /\ vd' = [schema |-> "validateTheme", payload |-> p,
              result |-> ParseResult(TemplateThemeSchema(p), p, NoRequest),
              out |-> validateTheme(p),
              errors |-> validateWithErrors(ParseResult(TemplateThemeSchema(p), p, NoRequest),
                                            NoRequest).errors]

ValidateNext ==
    \/ \E p \in RequestPayloads : ParseRequest(p)
    \/ \E p \in TemplatePayloads : ParseTemplate(p)
    \/ \E p \in FullRequestPayloads : ValidateGenerationRequest(p)
    \/ \E p \in ThemePayloads : ValidateTheme(p)

\* C15: GenerationRequestSchema accepts a request that omits useMCP and
\* selectedServers and fills in useMCP = true and selectedServers = [].
C15_DefaultsApplied ==
    (/\ vd.schema = "GenerationRequest"
     /\ vd.payload.description = Str(DESC_MIN)
     /\ vd.payload.theme = "system"
     /\ vd.payload.useMCP = Absent
     /\ vd.payload.selectedServers = Absent) =>
        /\ vd.result.success
        /\ vd.result.data.useMCP = "true"
        /\ vd.result.data.selectedServers = "[]"

\* C16: enum fields are closed sets: a request whose theme is not one of the
\* schema's themes, and a template with any block whose type is not one of
\* the schema's block types, is rejected as a whole: the parse fails and
\* yields no data, whatever the other fields and blocks are.
C16_EnumsClosed ==
    /\ (vd.schema = "GenerationRequest" /\ vd.payload.theme \notin ThemeEnum) =>
          ~vd.result.success /\ vd.result.data = NoRequest
    /\ (vd.schema = "Template"
          /\ \E i \in 1..Len(vd.payload.blocks) : vd.payload.blocks[i] \notin BlockTypeEnum) =>
          ~vd.result.success /\ vd.result.data = NoRequest

\* a template rejected for one unknown block type among valid ones
C16_Witness ==
    /\ vd.schema = "Template"
    /\ vd.payload.theme \in ThemeEnum
    /\ Len(vd.payload.blocks) = 2
    /\ vd.payload.blocks[1] = "heading" /\ vd.payload.blocks[2] = "quote"
    /\ ~vd.result.success
    /\ Len(vd.result.issues) = 1

\* C17: the validation POST /generate applies accepts a description exactly
\* when its length is between 10 and 2000 characters inclusive (the other
\* fields of the request being valid).
C17_DescriptionTenToTwoThousand ==
    (/\ vd.schema = "GenerationRequest"
     /\ vd.payload.description.present
     /\ vd.payload.theme \in ThemeEnum
     /\ vd.payload.useMCP # Absent
     /\ vd.payload.selectedServers # Absent) =>
        (vd.result.success <=>
            (vd.payload.description.len >= DESC_MIN
             /\ vd.payload.description.len <= LONG_DESC_MAX))

\* the fields of a request of the second validation module that violate the
\* schema
ViolatedFields(p) ==
    {f \in {"description", "useMCP", "selectedMCPServers", "complexity"} :
        \/ f = "description" /\ (~p.description.present \/ p.description.len < DESC_MIN
                                  \/ p.description.len > LONG_DESC_MAX)
        \/ f = "useMCP" /\ p.useMCP = Absent
        \/ f = "selectedMCPServers" /\ p.selectedMCPServers = Absent
        \/ f = "complexity" /\ p.complexity \notin ComplexityEnum}

\* C18: validateWithErrors has no partial success: it returns success = true
\* with the data and no errors, or success = false with no data and a
\* non-empty error list holding one '<field.path>: <message>' entry for
\* every violation.
C18_NoPartialSuccess ==
    vd.schema = "validateGenerationRequest" =>
        \/ /\ ViolatedFields(vd.payload) = {}
           /\ vd.out.success
           /\ vd.out.data = vd.payload
           /\ vd.out.errors = <<>>
        \/ /\ ViolatedFields(vd.payload) # {}
           /\ ~vd.out.success
           /\ vd.out.data = NoFullRequest
           /\ Len(vd.out.errors) = Cardinality(ViolatedFields(vd.payload))
           /\ {vd.out.errors[i][1] : i \in 1..Len(vd.out.errors)} = ViolatedFields(vd.payload)
           /\ \A i \in 1..Len(vd.out.errors) :
                 Len(vd.out.errors[i]) = 3 /\ vd.out.errors[i][2] = ": "

\* a request with three violations, reported in three entries
C18_Witness ==
    /\ vd.schema = "validateGenerationRequest"
    /\ vd.payload.description = Str(DESC_MIN - 1)
    /\ vd.payload.useMCP = Absent
    /\ vd.payload.complexity = "expert"
    /\ vd.payload.selectedMCPServers # Absent
    /\ ~vd.out.success
    /\ Len(vd.out.errors) = 3
    /\ vd.out.errors[1] = <<"description", ": ", "too_small">>

\* C21: theme validation accepts a color exactly when it is '#' followed by
\* exactly 3 or exactly 6 hexadecimal digits; any other string is rejected
\* with a message that names the offending color field: its index for
\* validateTheme, its path for the schema.
C21_HexColors ==
    vd.schema = "validateTheme" =>
        LET m == vd.payload.made
            k == vd.payload.k
            wellFormed == m.prefix = <<"#">> /\ m.n \in {3, 6} /\ m.bad = 0 /\ ~m.extra
            byIndex == {e \in {vd.out.errors[i] : i \in 1..Len(vd.out.errors)} :
                          e.text = "Invalid color at index"}
            byPath == {e \in {vd.errors[i] : i \in 1..Len(vd.errors)} : e[1] = "colors"}
        IN  /\ wellFormed => byIndex = {} /\ byPath = {}
            /\ ~wellFormed =>
                  /\ ~vd.out.valid /\ ~vd.result.success
                  /\ byIndex = {ThemeError("Invalid color at index", k - 1, vd.payload.colors[k])}
                  /\ byPath = {<<"colors", ColorNames[k], ": ", "invalid_string">>}

\* a color of five hexadecimal digits in the field text, rejected by both
C21_Witness ==
    /\ vd.schema = "validateTheme"
    /\ vd.payload.k = 5
    /\ vd.payload.colors[5] = <<"#", "a", "F", "0", "9", "c">>
    /\ vd.payload.spacing = "compact" /\ vd.payload.body # <<>>
    /\ vd.out.errors = <<ThemeError("Invalid color at index", 4, vd.payload.colors[5])>>
    /\ vd.errors = <<<<"colors", "text", ": ", "invalid_string">>>>

\* C19: every failure response of POST /generate has the structured shape
\* {success: false, error: {code, message}}; and when generation failed but a
\* fallback template was built, the response carries that template.
C19_StructuredFailure ==
    /\ (http.sent /\ http.status # 200) =>
          /\ http.body.success = "false"
          /\ http.body.error.type = "object"
    /\ (http.sent /\ g_pc = "done" /\ g_error # "" /\ ~template.null) =>
          http.body.template = template

----------------------------------------------------------------------------
(* storage: listTemplates (storage:176-222) *)

\* for the search, titles and descriptions are spelled letter by letter
toLowerCase(text) ==
    [i \in 1..Len(text) |-> CASE text[i] = "A" -> "a" [] text[i] = "B" -> "b"
                               [] OTHER -> text[i]]
includes(text, part) ==
    \E i \in 0..(Len(text) - Len(part)) : SubSeq(text, i + 1, i + Len(part)) = part

Search(text) == [present |-> TRUE, text |-> text]
NoSearch == [present |-> FALSE, text |-> <<>>]

\* storage:195-207: the search filter, the public filter
Matches(t, search, isPublic) ==
    /\ (search.present /\ search.text # <<>>) =>
          \/ includes(toLowerCase(t.title), toLowerCase(search.text))
          \/ includes(toLowerCase(t.description), toLowerCase(search.text))
    /\ isPublic # Absent => (t.is_public <=> isPublic = "true")

\* Array.prototype.sort with (a, b) => b.updated_at - a.updated_at: stable,
\* newest first
RECURSIVE sortNewestFirst(_)
sortNewestFirst(ts) ==
    IF ts = <<>> THEN <<>>
    ELSE LET last == ts[Len(ts)]
             rest == sortNewestFirst(SubSeq(ts, 1, Len(ts) - 1))
             keep == Cardinality({i \in 1..Len(rest) : rest[i].updated_at >= last.updated_at})
         IN  SubSeq(rest, 1, keep) \o <<last>> \o SubSeq(rest, keep + 1, Len(rest))

\* storage:176-222
listTemplates_StartAtPage(templates, page, limit, search, isPublic) ==
    LET filtered == sortNewestFirst(SelectSeq(templates, LAMBDA t : Matches(t, search, isPublic)))
        total == Len(filtered)
        startIndex == page * limit
        endIndex == startIndex + limit
    IN  [items |-> SubSeq(filtered, startIndex + 1, Min(endIndex, total)),
         total |-> total, page |-> page, per_page |-> limit, has_more |-> endIndex < total]

listTemplates(templates, page, limit, search, isPublic) ==
    LET filtered == sortNewestFirst(SelectSeq(templates, LAMBDA t : Matches(t, search, isPublic)))
        total == Len(filtered)
        startIndex == (page - 1) * limit
        endIndex == startIndex + limit
    IN  [items |-> SubSeq(filtered, startIndex + 1, Min(endIndex, total)),
         total |-> total, page |-> page, per_page |-> limit, has_more |-> endIndex < total]

\* the stores listed: template i has id i; the odd ones match "ab" in the
\* title, the even ones "ba" in the description
ListTemplate(i, updated, public) ==
    StoredTemplate(ToString(i),
                   IF i % 2 = 1 THEN Body(<<"A", "b">>, <<"c">>, <<>>, "light")
                                ELSE Body(<<"c">>, <<"b", "A">>, <<>>, "light"),
                   0, updated, public)
ListStores ==
    UNION {{[i \in 1..n |-> ListTemplate(i, u[i], pub[i])] :
                u \in [1..n -> 0..MaxTime], pub \in [1..n -> BOOLEAN]} : n \in 0..MaxList}
Searches == {NoSearch, Search(<<>>), Search(<<"a", "B">>), Search(<<"B", "a">>)}

ListInit ==
    /\ store \in ListStores
    /\ clock = MaxTime
    /\ lastOp = Op("none", "", FALSE, NoStored, 0)
    /\ lastImport = NoImport
    /\ localStore = <<>>

\* one listing per behaviour: a listing leaves the store as it is, so a
\* second one from the same store is the first one of another behaviour
ListTemplates(page, limit, search, isPublic) ==
    /\ UNCHANGED <<genVars, toolVars, callVars, store, clock, lastImport, localStore>>
    /\ lastOp.op = "none"
    /\ lastOp' = [op |-> "list", page |-> page, limit |-> limit, search |-> search,
                  isPublic |-> isPublic,
                  ret |-> listTemplates(store, page, limit, search, isPublic)]

ListNext ==
    \E page \in 1..(MaxList + 1), limit \in {1, 2, MaxList}, search \in Searches,
       isPublic \in BoolValues : ListTemplates(page, limit, search, isPublic)

----------------------------------------------------------------------------
(* storage: two saveTemplate calls in flight (storage:95-106) *)

\* each call awaits loadTemplates(), changes the array it got, and awaits
\* saveTemplates(); the read and the write are one step each

\* the stores the two saves start from: empty, or one template
ConcurrentInit ==
    /\ store \in {s \in ListStores : Len(s) <= 1}
    /\ clock = MaxTime
    /\ lastOp = Op("none", "", FALSE, NoStored, 0)
    /\ lastImport = NoImport
    /\ localStore = <<>>

\* saveTemplate(t) is called
SaveCalled(p, t) ==
    /\ UNCHANGED <<genVars, toolVars, storeVars, rt, vd, http, ld>>
    /\ cs.call[p].pc = "idle"
    /\ \A q \in 1..2 : cs.call[q].pc # "idle" => cs.call[q].template.id # t.id
    /\ cs' = [before |-> IF \A q \in 1..2 : cs.call[q].pc = "idle" THEN store ELSE cs.before,
              call |-> [cs.call EXCEPT ![p] = [pc |-> "called", template |-> t,
                                               templates |-> <<>>]]]

\* storage:96: const templates = await loadTemplates()
SaveLoads(p) ==
    /\ UNCHANGED <<genVars, toolVars, storeVars, rt, vd, http, ld>>
    /\ cs.call[p].pc = "called"
    /\ cs' = [cs EXCEPT !.call[p].pc = "loaded", !.call[p].templates = store]

\* storage:97-105: change the array read, await saveTemplates(templates)
SaveWrites(p) ==
    /\ UNCHANGED <<genVars, toolVars, clock, lastOp, lastImport, localStore, rt, vd, http, ld>>
    /\ cs.call[p].pc = "loaded"
    /\ store' = saveTemplate(cs.call[p].templates, cs.call[p].template, clock)
    /\ cs' = [cs EXCEPT !.call[p].pc = "done"]

ConcurrentNext ==
    \/ \E p \in 1..2, i \in 1..MaxList, u \in 0..MaxTime :
          SaveCalled(p, ListTemplate(i, u, TRUE))
    \/ \E p \in 1..2 : SaveLoads(p)
    \/ \E p \in 1..2 : SaveWrites(p)

----------------------------------------------------------------------------
(* Claims about the template store *)

\* a step of toggleTemplatePublic / deleteTemplate / updateTemplate, told by
\* the operation the step records
ToggleStep == lastOp'.op = "toggle" /\ lastOp'.found
DeleteStep == lastOp'.op = "delete"
UpdateStep == lastOp'.op = "update" /\ lastOp'.found

Unique(templates) ==
    \A i, j \in 1..Len(templates) : i # j => templates[i].id # templates[j].id

\* C11: after any sequence of createTemplate, saveTemplate, updateTemplate,
\* toggleTemplatePublic, importTemplates and deleteTemplate no two stored
\* templates have the same id, and a saveTemplate of a stored id replaces
\* that entry in place (same length, the saved content under that id); the
\* same holds of the localStorage variant of saveTemplate.
C11_IdsUnique ==
    [][/\ Unique(store')
       /\ Unique(localStore')
       /\ (lastOp'.op = "localSave" /\ lastOp'.found) =>
             /\ Len(localStore') = Len(localStore)
             /\ loadTemplate(localStore', lastOp'.id) = lastOp'.ret
       /\ (lastOp'.op = "save" /\ lastOp'.found) =>
             /\ Len(store') = Len(store)
             /\ \A i \in 1..Len(store) :
                   IF store[i].id = lastOp'.id
                     THEN /\ store'[i].id = lastOp'.id
                          /\ store'[i].title = lastOp'.ret.title
                          /\ store'[i].created_at = lastOp'.ret.created_at
                     ELSE store'[i] = store[i]]_vars

\* a saveTemplate on a stored id, beside another stored template, that
\* changed the stored content
C11_Witness ==
    /\ lastOp.op = "save" /\ lastOp.found
    /\ Len(store) = 2
    /\ \E i \in 1..2 : store[i].id = lastOp.id /\ store[i].created_at = MaxTime

\* C12: every stored template has updated_at >= created_at after any
\* sequence of createTemplate, saveTemplate, updateTemplate with arbitrary
\* partial updates, toggleTemplatePublic and importTemplates, the clock
\* never going backwards.
C12_UpdatedNotBeforeCreated ==
    \A i \in 1..Len(store) : store[i].updated_at >= store[i].created_at

\* C26: importTemplates never overwrites or removes a template stored before
\* the import: each is still stored under its id, unchanged (an item whose id
\* is taken, also by an earlier item of the same import, gets a fresh id);
\* the store grows by exactly the imported count, and imported plus the
\* number of errors is the number of items.
C26_ImportKeepsStored ==
    [][lastOp'.op = "import" =>
          /\ \A i \in 1..Len(store) : loadTemplate(store', store[i].id) = store[i]
          /\ Unique(store')
          /\ Len(store') = Len(store) + lastImport'.imported
          /\ lastImport'.imported + lastImport'.errors = lastImport'.n]_vars

\* an import of two items of the same id: both imported, the second renamed
C26_Witness ==
    /\ lastOp.op = "import"
    /\ lastImport.n = 2 /\ lastImport.imported = 2 /\ lastImport.renamed = 1
    /\ Len(store) = 2
    /\ store[1].id # store[2].id

\* C25: the template updateTemplate and toggleTemplatePublic return equals,
\* in every field including updated_at, the template stored under that id
\* when the call completes; for an unknown id they return null and the store
\* is not written.
C25_ReturnedIsStored ==
    [][lastOp'.op \in {"update", "toggle"} =>
          IF lastOp'.found
            THEN loadTemplate(store', lastOp'.id) = lastOp'.ret
            ELSE /\ lastOp'.ret = NoStored
                 /\ lastOp'.writes = 0
                 /\ store' = store]_vars

\* C24: two saveTemplate calls for templates of different ids, their reads
\* and writes interleaved in any order, both take effect: once both have
\* completed, loadTemplate returns each of the two templates, and every
\* template stored before is still stored.
C24_ConcurrentSavesBothKept ==
    (\A p \in 1..2 : cs.call[p].pc = "done") =>
        /\ \A p \in 1..2 :
              loadTemplate(store, cs.call[p].template.id).id = cs.call[p].template.id
        /\ \A i \in 1..Len(cs.before) : cs.before[i].id \in Ids(store)

\* the items of pages 1..n of a listing, in page order
RECURSIVE PagesUpTo(_, _)
PagesUpTo(op, n) ==
    IF n = 0 THEN <<>>
    ELSE PagesUpTo(op, n - 1) \o listTemplates(store, n, op.limit, op.search, op.isPublic).items

\* C20: listTemplates(page, limit, search, isPublic), page and limit positive,
\* returns at most limit items, total equal to the number of stored templates
\* matching the filters, has_more true exactly when page * limit < total,
\* items in descending updated_at order, and the pages 1..ceil(total/limit)
\* together contain every matching template exactly once.
C20_ListPages ==
    lastOp.op = "list" =>
        LET r == lastOp.ret
            matching == {i \in 1..Len(store) : Matches(store[i], lastOp.search, lastOp.isPublic)}
            pages == (r.total + lastOp.limit - 1) \div lastOp.limit
            all == PagesUpTo(lastOp, pages)
        IN  /\ Len(r.items) <= lastOp.limit
            /\ r.total = Cardinality(matching)
            /\ r.has_more <=> lastOp.page * lastOp.limit < r.total
            /\ \A i \in 1..(Len(r.items) - 1) : r.items[i].updated_at >= r.items[i + 1].updated_at
            /\ Len(all) = Cardinality(matching)
            /\ {all[i] : i \in 1..Len(all)} = {store[i] : i \in matching}
            /\ r.page = lastOp.page /\ r.per_page = lastOp.limit

\* the first page of one, of two public templates among three stored, the
\* newer first though stored last
C20_Witness ==
    /\ lastOp.op = "list"
    /\ Len(store) = 3
    /\ lastOp.isPublic = "true" /\ lastOp.page = 1 /\ lastOp.limit = 1
    /\ lastOp.ret.total = 2
    /\ lastOp.ret.has_more
    /\ Len(lastOp.ret.items) = 1
    /\ lastOp.ret.items[1] = store[3]
    /\ store[1].is_public /\ store[1].updated_at < store[3].updated_at

\* C8: toggleTemplatePublic on a stored template flips is_public and sets
\* updated_at of that template and changes nothing else: its id, created_at,
\* title, description, blocks and theme stay, and every other stored template
\* stays as it was.
C8_ToggleChangesOnlyFlagAndTime ==
    [][ToggleStep =>
          /\ Len(store') = Len(store)
          /\ \A i \in 1..Len(store) :
                IF store[i].id = lastOp'.id
                  THEN /\ store'[i].is_public = ~store[i].is_public
                       /\ store'[i].id = store[i].id
                       /\ store'[i].created_at = store[i].created_at
                       /\ store'[i].title = store[i].title
                       /\ store'[i].description = store[i].description
                       /\ store'[i].blocks = store[i].blocks
                       /\ store'[i].theme = store[i].theme
                  ELSE store'[i] = store[i]]_vars

\* a toggle of one of two stored templates, at a time later than its creation
C8_Witness ==
    /\ lastOp.op = "toggle"
    /\ lastOp.found
    /\ Len(store) = 2
    /\ \E i \in 1..2 : /\ store[i].id = lastOp.id
                       /\ store[i].is_public
                       /\ store[i].updated_at > store[i].created_at

\* C9: deleteTemplate with an id that is not stored returns false, writes
\* nothing and leaves the store as it was; with a stored id it returns true
\* and removes that template and no other.
C9_DeleteExactlyThat ==
    [][DeleteStep =>
          IF lastOp'.id \notin Ids(store)
            THEN /\ ~lastOp'.found
                 /\ lastOp'.writes = 0
                 /\ store' = store
            ELSE /\ lastOp'.found
                 /\ Len(store') = Len(store) - 1
                 /\ Ids(store') = Ids(store) \ {lastOp'.id}
                 /\ \A i \in 1..Len(store') : \E j \in 1..Len(store) :
                       store'[i] = store[j]]_vars

\* a delete that removed one of two stored templates
C9_Witness ==
    /\ lastOp.op = "delete"
    /\ lastOp.found
    /\ Len(store) = 1
    /\ lastOp.id \notin Ids(store)

\* C10: after updateTemplate(id, updates) on a stored id, whatever updates
\* carries, the template stored under id is the updated one, the stored ids
\* are the ones stored before, and the number of stored templates is unchanged.
C10_IdImmutable ==
    [][UpdateStep =>
          /\ Len(store') = Len(store)
          /\ Ids(store') = Ids(store)
          /\ loadTemplate(store', lastOp'.id).title = lastOp'.ret.title
          /\ loadTemplate(store', lastOp'.id).is_public = lastOp'.ret.is_public
          /\ loadTemplate(store', lastOp'.id).created_at = lastOp'.ret.created_at]_vars

----------------------------------------------------------------------------
(* Specifications: each exercises one subsystem and holds the others still *)

InitGen == GenInit /\ ToolInit /\ StoreInit /\ CallInit
SpecGen == InitGen /\ [][GenNext]_vars

InitTools == GenIdle /\ ToolInit /\ StoreInit /\ CallInit
SpecTools == InitTools /\ [][ToolNext]_vars

InitStore == GenIdle /\ ToolInit /\ StoreInit /\ CallInit
SpecStore == InitStore /\ [][StoreNext]_vars

InitRoundTrip == GenIdle /\ ToolInit /\ RtStoreInit /\ CallInit
SpecRoundTrip == InitRoundTrip /\ [][RtNext]_vars

InitValidate == GenIdle /\ ToolInit /\ StoreInit /\ CallInit
SpecValidate == InitValidate /\ [][ValidateNext]_vars

InitConcurrent == GenIdle /\ ToolInit /\ ConcurrentInit /\ CallInit
SpecConcurrent == InitConcurrent /\ [][ConcurrentNext]_vars

InitLoader == GenIdle /\ ToolInit /\ StoreInit /\ CallInit
SpecLoader == InitLoader /\ [][LoaderNext]_vars

InitList == GenIdle /\ ToolInit /\ ListInit /\ CallInit
SpecList == InitList /\ [][ListNext]_vars

InitStoreAll == GenIdle /\ ToolInit /\ StoreInit /\ CallInit
SpecStoreAll == InitStoreAll /\ [][StoreAllNext]_vars

============================================================================
